---- MODULE Spec2Model ----
(***************************************************************************)
(* Model of the Fusion 360 MCP server: the script generator               *)
(* (src/src/script_generator.py) and the transports that call it          *)
(* (src/src/main.py).                                                      *)
(*                                                                         *)
(* Text is a sequence of tokens.  A token is a string; the token "\n" is  *)
(* the newline character.  Template literals are cut so that no token     *)
(* other than a whitespace token starts or ends with whitespace, and      *)
(* caller strings are sequences of one-character tokens, so lower(),      *)
(* strip(), split("\n") and join() are computed on the tokens exactly as  *)
(* Python computes them on the characters.                                 *)
(***************************************************************************)
EXTENDS Integers, Sequences, FiniteSets, TLC

(***************************************************************************)
(* Bounds of the model.                                                    *)
(***************************************************************************)
\* longest batch of tool calls a request carries
MaxCalls == 3

(***************************************************************************)
(* Python values: str, int, list of int, None.                             *)
(***************************************************************************)
NL == "\n"

PyStr(s) == [t |-> "str", s |-> s, n |-> 0, l |-> <<>>]

PyInt(n) == [t |-> "int", s |-> <<>>, n |-> n, l |-> <<>>]

PyList(l) == [t |-> "list", s |-> <<>>, n |-> 0, l |-> l]

PyNone == [t |-> "none", s |-> <<>>, n |-> 0, l |-> <<>>]

\* bool(value)
Truthy(v) ==
    CASE v.t = "str" -> v.s # <<>>
      [] v.t = "int" -> v.n # 0
      [] v.t = "list" -> v.l # <<>>
      [] OTHER -> FALSE

Digit(d) ==
    CASE d = 0 -> "0" [] d = 1 -> "1" [] d = 2 -> "2" [] d = 3 -> "3"
      [] d = 4 -> "4" [] d = 5 -> "5" [] d = 6 -> "6" [] d = 7 -> "7"
      [] d = 8 -> "8" [] d = 9 -> "9"

RECURSIVE Digits(_)
Digits(n) == IF n < 10 THEN <<Digit(n)>> ELSE Digits(n \div 10) \o <<Digit(n % 10)>>

\* str(n) of an int
IntText(n) == IF n < 0 THEN <<"-">> \o Digits(0 - n) ELSE Digits(n)

RECURSIVE ListItemsText(_)
ListItemsText(l) ==
    IF l = <<>> THEN <<>>
    ELSE IF Len(l) = 1 THEN IntText(l[1])
    ELSE IntText(l[1]) \o <<",", " ">> \o ListItemsText(Tail(l))

\* str(value), which is what str.format and an f-string put into the text
StrOf(v) ==
    CASE v.t = "str" -> v.s
      [] v.t = "int" -> IntText(v.n)
      [] v.t = "list" -> <<"[">> \o ListItemsText(v.l) \o <<"]">>
      [] OTHER -> <<"None">>

LowerChar(c) ==
    CASE c = "A" -> "a" [] c = "B" -> "b" [] c = "C" -> "c" [] c = "D" -> "d"
      [] c = "E" -> "e" [] c = "F" -> "f" [] c = "G" -> "g" [] c = "H" -> "h"
      [] c = "I" -> "i" [] c = "J" -> "j" [] c = "K" -> "k" [] c = "L" -> "l"
      [] c = "M" -> "m" [] c = "N" -> "n" [] c = "O" -> "o" [] c = "P" -> "p"
      [] c = "Q" -> "q" [] c = "R" -> "r" [] c = "S" -> "s" [] c = "T" -> "t"
      [] c = "U" -> "u" [] c = "V" -> "v" [] c = "W" -> "w" [] c = "X" -> "x"
      [] c = "Y" -> "y" [] c = "Z" -> "z" [] OTHER -> c

\* str.lower() on the characters of a string
Lower(s) == [i \in 1..Len(s) |-> LowerChar(s[i])]

(***************************************************************************)
(* Python dict: insertion-ordered sequence of entries with distinct keys.  *)
(***************************************************************************)
Keys(d) == {d[i].k : i \in 1..Len(d)}

Has(d, key) == \E i \in 1..Len(d) : d[i].k = key

\* d[key] for a key that is present
Get(d, key) == d[CHOOSE i \in 1..Len(d) : d[i].k = key].v

\* d.get(key, dflt)
GetOr(d, key, dflt) == IF Has(d, key) THEN Get(d, key) ELSE dflt

\* d[key] = val: a present key keeps its position, a new key goes last
Put(d, key, val) ==
    IF Has(d, key)
    THEN [i \in 1..Len(d) |-> IF d[i].k = key THEN [k |-> key, v |-> val] ELSE d[i]]
    ELSE Append(d, [k |-> key, v |-> val])

(***************************************************************************)
(* Text operations.                                                        *)
(***************************************************************************)
Whitespace == {" ", NL, "\t", "    ", "        ", "            "}

Indices(seq) == [i \in 1..Len(seq) |-> i]

\* the concatenation of the sequences parts[lo], ..., parts[hi]
RECURSIVE ConcatRange(_, _, _)
ConcatRange(parts, lo, hi) ==
    IF lo > hi THEN <<>>
    ELSE IF lo = hi THEN parts[lo]
    ELSE LET mid == (lo + hi) \div 2
         IN  ConcatRange(parts, lo, mid) \o ConcatRange(parts, mid + 1, hi)

Concat(parts) == ConcatRange(parts, 1, Len(parts))

\* str.strip(): the text from its first to its last non-whitespace token
Strip(txt) ==
    LET solid == SelectSeq(Indices(txt), LAMBDA i : txt[i] \notin Whitespace)
    IN  IF solid = <<>> THEN <<>> ELSE SubSeq(txt, solid[1], solid[Len(solid)])

\* str.split("\n"): the lines of a text; the empty text has one empty line
Split(txt) ==
    LET nl == SelectSeq(Indices(txt), LAMBDA i : txt[i] = NL)
        n == Len(nl)
    IN  [j \in 1..(n + 1) |->
            SubSeq(txt, IF j = 1 THEN 1 ELSE nl[j - 1] + 1,
                        IF j = n + 1 THEN Len(txt) ELSE nl[j] - 1)]

\* "\n".join(parts)
JoinNL(parts) ==
    Concat([i \in 1..Len(parts) |-> IF i = 1 THEN parts[1] ELSE <<NL>> \o parts[i]])

(***************************************************************************)
(* Templates: a template is a sequence of literal tokens L and replacement *)
(* fields P, in the order str.format meets them.                           *)
(***************************************************************************)
L(s) == [ph |-> FALSE, s |-> s]

P(name) == [ph |-> TRUE, s |-> name]

\* SCRIPT_TEMPLATES["CreateSketch"]
TemplateCreateSketch ==
    <<L(NL), L("# Create a new sketch on the"), L(" "), P("plane"), L(" "),
      L("plane"), L(NL), L("sketches = component.sketches"), L(NL),
      P("plane_code"), L(NL), L("sketch = sketches.add("), P("plane_var"),
      L(")"), L(NL)>>

\* SCRIPT_TEMPLATES["DrawRectangle"]
TemplateDrawRectangle ==
    <<L(NL), L("# Draw a rectangle"), L(NL),
      L("rectangle = sketch.sketchCurves.sketchLines.addTwoPointRectangle("),
      L(NL), L("    "), L("adsk.core.Point3D.create("), P("origin_x"),
      L(","), L(" "), P("origin_y"), L(","), L(" "), P("origin_z"), L("),"),
      L(NL), L("    "), L("adsk.core.Point3D.create("), P("origin_x"),
      L(" "), L("+"), L(" "), P("width"), L(","), L(" "), P("origin_y"),
      L(" "), L("+"), L(" "), P("depth"), L(","), L(" "), P("origin_z"),
      L(")"), L(NL), L(")"), L(NL)>>

\* SCRIPT_TEMPLATES["DrawCircle"]
TemplateDrawCircle ==
    <<L(NL), L("# Draw a circle"), L(NL),
      L("circle = sketch.sketchCurves.sketchCircles.addByCenterRadius("),
      L(NL), L("    "), L("adsk.core.Point3D.create("), P("center_x"),
      L(","), L(" "), P("center_y"), L(","), L(" "), P("center_z"), L("),"),
      L(NL), L("    "), P("radius"), L(NL), L(")"), L(NL)>>

\* SCRIPT_TEMPLATES["Extrude"]
TemplateExtrude ==
    <<L(NL), L("# Extrude the profile"), L(NL),
      L("prof = sketch.profiles.item("), P("profile_index"), L(")"), L(NL),
      L("extrudes = component.features.extrudeFeatures"), L(NL),
      L("extInput = extrudes.createInput(prof, adsk.fusion.FeatureOperations."),
      P("operation_code"), L("FeatureOperation)"), L(NL),
      L("distance = adsk.core.ValueInput.createByReal("), P("height"),
      L(")"), L(NL), L("extInput.setDistanceExtent(False, distance)"), L(NL),
      L("extrude = extrudes.add(extInput)"), L(NL)>>

\* SCRIPT_TEMPLATES["Revolve"]
TemplateRevolve ==
    <<L(NL), L("# Revolve the profile"), L(NL),
      L("prof = sketch.profiles.item("), P("profile_index"), L(")"), L(NL),
      L("revolves = component.features.revolveFeatures"), L(NL),
      L("revInput = revolves.createInput(prof, adsk.fusion.FeatureOperations."),
      P("operation_code"), L("FeatureOperation)"), L(NL),
      L("axis = adsk.core.Line3D.create("), L(NL), L("    "),
      L("adsk.core.Point3D.create("), P("axis_origin_x"), L(","), L(" "),
      P("axis_origin_y"), L(","), L(" "), P("axis_origin_z"), L("),"), L(NL),
      L("    "), L("adsk.core.Vector3D.create("), P("axis_direction_x"),
      L(","), L(" "), P("axis_direction_y"), L(","), L(" "),
      P("axis_direction_z"), L(")"), L(NL), L(")"), L(NL),
      L("revInput.setRevolutionExtent(False, adsk.core.ValueInput.createByString(\""),
      P("angle"), L(" "), L("deg\"))"), L(NL),
      L("revInput.revolutionAxis = axis"), L(NL),
      L("revolve = revolves.add(revInput)"), L(NL)>>

\* SCRIPT_TEMPLATES["Fillet"]
TemplateFillet ==
    <<L(NL), L("# Fillet edges"), L(NL),
      L("fillets = component.features.filletFeatures"), L(NL),
      L("edgeCollection = adsk.core.ObjectCollection.create()"), L(NL),
      L("body = component.bRepBodies.item("), P("body_index"), L(")"), L(NL),
      P("edge_collection_code"), L(NL),
      L("filletInput = fillets.createInput()"), L(NL),
      L("filletInput.addConstantRadiusEdgeSet(edgeCollection, adsk.core.ValueInput.createByReal("),
      P("radius"), L("), True)"), L(NL),
      L("fillet = fillets.add(filletInput)"), L(NL)>>

\* SCRIPT_TEMPLATES["Chamfer"]
TemplateChamfer ==
    <<L(NL), L("# Chamfer edges"), L(NL),
      L("chamfers = component.features.chamferFeatures"), L(NL),
      L("edgeCollection = adsk.core.ObjectCollection.create()"), L(NL),
      L("body = component.bRepBodies.item("), P("body_index"), L(")"), L(NL),
      P("edge_collection_code"), L(NL),
      L("chamferInput = chamfers.createInput(edgeCollection, True)"), L(NL),
      L("chamferInput.setToEqualDistance(adsk.core.ValueInput.createByReal("),
      P("distance"), L("))"), L(NL),
      L("chamfer = chamfers.add(chamferInput)"), L(NL)>>

\* SCRIPT_TEMPLATES["Shell"]
TemplateShell ==
    <<L(NL), L("# Shell the body"), L(NL),
      L("shells = component.features.shellFeatures"), L(NL),
      L("body = component.bRepBodies.item("), P("body_index"), L(")"), L(NL),
      L("faceCollection = adsk.core.ObjectCollection.create()"), L(NL),
      P("face_collection_code"), L(NL),
      L("shellInput = shells.createInput([body], faceCollection)"), L(NL),
      L("shellInput.insideThickness = adsk.core.ValueInput.createByReal("),
      P("thickness"), L(")"), L(NL), L("shell = shells.add(shellInput)"),
      L(NL)>>

\* SCRIPT_TEMPLATES["Combine"]
TemplateCombine ==
    <<L(NL), L("# Combine bodies"), L(NL),
      L("combines = component.features.combineFeatures"), L(NL),
      L("targetBody = component.bRepBodies.item("), P("target_body_index"),
      L(")"), L(NL), L("toolBodies = adsk.core.ObjectCollection.create()"),
      L(NL), L("toolBody = component.bRepBodies.item("),
      P("tool_body_index"), L(")"), L(NL), L("toolBodies.add(toolBody)"),
      L(NL),
      L("combineInput = combines.createInput(targetBody, toolBodies)"),
      L(NL), L("combineInput.operation = adsk.fusion.FeatureOperations."),
      P("operation_code"), L("FeatureOperation"), L(NL),
      L("combine = combines.add(combineInput)"), L(NL)>>

\* SCRIPT_TEMPLATES["ExportBody"]
TemplateExportBody ==
    <<L(NL), L("# Export body"), L(NL),
      L("body = component.bRepBodies.item("), P("body_index"), L(")"), L(NL),
      L("exportMgr = adsk.fusion.ExportManager.cast(design.exportManager)"),
      L(NL), P("export_options_code"), L(NL), L("exportMgr.execute('"),
      P("filename"), L("', '"), P("directory"), L("', options)"), L(NL)>>

\* BASE_SCRIPT_TEMPLATE
BASE_SCRIPT_TEMPLATE ==
    <<L("import adsk.core, adsk.fusion, traceback"), L(NL), L(NL),
      L("def run(context):"), L(NL), L("    "), L("ui = None"), L(NL),
      L("    "), L("try:"), L(NL), L("        "),
      L("app = adsk.core.Application.get()"), L(NL), L("        "),
      L("ui = app.userInterface"), L(NL), L("        "),
      L("design = app.activeProduct"), L(NL), L("        "), L(NL),
      L("        "), L("# Get the active component in the design"), L(NL),
      L("        "), L("component = design.rootComponent"), L(NL),
      L("        "), L(NL), P("tool_scripts"), L(NL), L("        "), L(NL),
      L("        "), L("ui.messageBox('Operation completed successfully')"),
      L(NL), L("    "), L("except:"), L(NL), L("        "), L("if ui:"),
      L(NL), L("            "), L("ui.messageBox('Failed:\\n{"), L("}"),
      L("'.format(traceback.format_exc()))"), L(NL)>>

\* the keys of SCRIPT_TEMPLATES
TemplateNames ==
    {"CreateSketch", "DrawRectangle", "DrawCircle", "Extrude", "Revolve",
     "Fillet", "Chamfer", "Shell", "Combine", "ExportBody"}

\* SCRIPT_TEMPLATES.get(tool_name); <<>> stands for None
SCRIPT_TEMPLATES(tool_name) ==
    CASE tool_name = "CreateSketch" -> TemplateCreateSketch
      [] tool_name = "DrawRectangle" -> TemplateDrawRectangle
      [] tool_name = "DrawCircle" -> TemplateDrawCircle
      [] tool_name = "Extrude" -> TemplateExtrude
      [] tool_name = "Revolve" -> TemplateRevolve
      [] tool_name = "Fillet" -> TemplateFillet
      [] tool_name = "Chamfer" -> TemplateChamfer
      [] tool_name = "Shell" -> TemplateShell
      [] tool_name = "Combine" -> TemplateCombine
      [] tool_name = "ExportBody" -> TemplateExportBody
      [] OTHER -> <<>>

(***************************************************************************)
(* The tool catalog (src/src/tool_registry.json, read at import).  A       *)
(* ParameterSpec with has_default = FALSE is a spec without a "default"    *)
(* key.                                                                    *)
(***************************************************************************)
Req(name, type) ==
    [name |-> name, type |-> type, has_default |-> FALSE, default |-> PyNone]

Opt(name, type, default) ==
    [name |-> name, type |-> type, has_default |-> TRUE, default |-> default]

Tool(name, parameters) == [name |-> name, parameters |-> parameters]

\* the ten tools the templates are written for
BaseRegistry ==
    <<Tool("CreateSketch", <<Opt("plane", "string", PyStr(<<"x", "y">>))>>),
      Tool("DrawRectangle",
           <<Req("width", "number"), Req("depth", "number"),
             Opt("origin_x", "number", PyInt(0)), Opt("origin_y", "number", PyInt(0)),
             Opt("origin_z", "number", PyInt(0))>>),
      Tool("DrawCircle",
           <<Opt("center_x", "number", PyInt(0)), Opt("center_y", "number", PyInt(0)),
             Opt("center_z", "number", PyInt(0)), Req("radius", "number")>>),
      Tool("Extrude",
           <<Opt("profile_index", "integer", PyInt(0)), Req("height", "number"),
             Opt("operation", "string", PyStr(<<"n", "e", "w">>))>>),
      Tool("Revolve",
           <<Opt("profile_index", "integer", PyInt(0)),
             Opt("axis_origin_x", "number", PyInt(0)),
             Opt("axis_origin_y", "number", PyInt(0)),
             Opt("axis_origin_z", "number", PyInt(0)),
             Opt("axis_direction_x", "number", PyInt(0)),
             Opt("axis_direction_y", "number", PyInt(0)),
             Opt("axis_direction_z", "number", PyInt(1)),
             Opt("angle", "number", PyInt(360)),
             Opt("operation", "string", PyStr(<<"n", "e", "w">>))>>),
      Tool("Fillet",
           <<Opt("body_index", "integer", PyInt(0)), Req("radius", "number"),
             Opt("edge_indices", "array", PyList(<<>>))>>),
      Tool("Chamfer",
           <<Opt("body_index", "integer", PyInt(0)), Req("distance", "number"),
             Opt("edge_indices", "array", PyList(<<>>))>>),
      Tool("Shell",
           <<Opt("body_index", "integer", PyInt(0)), Req("thickness", "number"),
             Opt("face_indices", "array", PyList(<<>>))>>),
      Tool("Combine",
           <<Opt("target_body_index", "integer", PyInt(0)),
             Opt("tool_body_index", "integer", PyInt(1)),
             Opt("operation", "string", PyStr(<<"j", "o", "i", "n">>))>>),
      Tool("ExportBody",
           <<Opt("body_index", "integer", PyInt(0)),
             Opt("format", "string", PyStr(<<"s", "t", "l">>)),
             Req("filename", "string")>>)>>

\* the descriptor tools/add_tool.py appends for the tool of
\* tools/loft_profiles_template.py; script_generator.py has no template for it
LoftProfilesTool ==
    Tool("LoftProfiles",
         <<Req("profile_indices", "array"),
           Opt("operation", "string", PyStr(<<"n", "e", "w">>))>>)

\* the registry files the server can be started on
Registries == {BaseRegistry, Append(BaseRegistry, LoftProfilesTool)}

\* tool_name in TOOLS_BY_NAME
InCatalog(registry, tool_name) ==
    \E i \in 1..Len(registry) : registry[i].name = tool_name

\* TOOLS_BY_NAME[tool_name]: the dict comprehension keeps the last descriptor
\* of a name
TOOLS_BY_NAME(registry, tool_name) ==
    registry[CHOOSE i \in 1..Len(registry) :
                 /\ registry[i].name = tool_name
                 /\ \A j \in (i + 1)..Len(registry) : registry[j].name # tool_name]

(***************************************************************************)
(* Outcomes of a computation that may raise.                               *)
(***************************************************************************)
Return(value) == [ok |-> TRUE, value |-> value, exc |-> "", msg |-> <<>>]

\* value is the object under construction as the exception leaves it
Raise(exc, msg, value) == [ok |-> FALSE, value |-> value, exc |-> exc, msg |-> msg]

\* the name type(v).__name__ has in an AttributeError or TypeError message
TypeName(v) ==
    CASE v.t = "str" -> "str" [] v.t = "int" -> "int"
      [] v.t = "list" -> "list" [] OTHER -> "NoneType"

NoAttribute(v, attr) ==
    <<"'", TypeName(v), "'", " ", "object has no attribute", " ", "'", attr, "'">>

NotIterable(v) ==
    <<"'", TypeName(v), "'", " ", "object is not iterable">>

(***************************************************************************)
(* _process_parameters (src/src/script_generator.py).                      *)
(***************************************************************************)
\* processed = parameters: the caller's dict object itself
copyAlias(parameters) == [dict |-> parameters, is_new |-> FALSE]

\* parameters.copy(): a new dict object holding the entries of the caller's
\* dict; is_new tells that writes to it do not reach the caller's object
copy(parameters) == [dict |-> parameters, is_new |-> TRUE]

\* a default written over whatever the dict holds
DefaultAppliesAlways(processed, param_info) == param_info.has_default

\* param_name not in processed and "default" in param_info
DefaultApplies(processed, param_info) ==
    ~Has(processed, param_info.name) /\ param_info.has_default

\* the loop that applies default values for missing parameters
RECURSIVE ApplyDefaults(_, _)
ApplyDefaults(processed, specs) ==
    IF specs = <<>> THEN processed
    ELSE LET param_info == Head(specs)
         IN  IF DefaultApplies(processed, param_info)
             THEN ApplyDefaults(Put(processed, param_info.name, param_info.default),
                                Tail(specs))
             ELSE ApplyDefaults(processed, Tail(specs))

Lit(s) == PyStr(<<s>>)

MustBeOneOf(what, value, accepted) ==
    <<what, " ">> \o value \o <<".", " ", "Must be one of:", " ">> \o accepted

\* a variant of the CreateSketch branch that hands sketches.add the variable
\* xyPlane whatever the plane
ProcessCreateSketchXyVar(processed) ==
    LET raw == GetOr(processed, "plane", PyStr(<<"x", "y">>))
    IN  IF raw.t # "str"
        THEN Raise("AttributeError", NoAttribute(raw, "lower"), processed)
        ELSE LET plane == Lower(raw.s)
             IN  IF plane \in {<<"x", "y">>, <<"y", "z">>, <<"x", "z">>}
                 THEN Return(Put(Put(processed, "plane_code",
                                     Lit(IF plane = <<"x", "y">>
                                         THEN "xyPlane = component.xYConstructionPlane"
                                         ELSE IF plane = <<"y", "z">>
                                         THEN "yzPlane = component.yZConstructionPlane"
                                         ELSE "xzPlane = component.xZConstructionPlane")),
                                 "plane_var", Lit("xyPlane")))
                 ELSE Raise("ValueError",
                            MustBeOneOf("Invalid plane:", plane,
                                        <<"xy", ",", " ", "yz", ",", " ", "xz">>),
                            processed)

\* tool_name == "CreateSketch"
ProcessCreateSketch(processed) ==
    LET raw == GetOr(processed, "plane", PyStr(<<"x", "y">>))
    IN  IF raw.t # "str"
        THEN Raise("AttributeError", NoAttribute(raw, "lower"), processed)
        ELSE LET plane == Lower(raw.s)
             IN  IF plane = <<"x", "y">>
                 THEN Return(Put(Put(processed, "plane_code",
                                     Lit("xyPlane = component.xYConstructionPlane")),
                                 "plane_var", Lit("xyPlane")))
                 ELSE IF plane = <<"y", "z">>
                 THEN Return(Put(Put(processed, "plane_code",
                                     Lit("yzPlane = component.yZConstructionPlane")),
                                 "plane_var", Lit("yzPlane")))
                 ELSE IF plane = <<"x", "z">>
                 THEN Return(Put(Put(processed, "plane_code",
                                     Lit("xzPlane = component.xZConstructionPlane")),
                                 "plane_var", Lit("xzPlane")))
                 ELSE Raise("ValueError",
                            MustBeOneOf("Invalid plane:", plane,
                                        <<"xy", ",", " ", "yz", ",", " ", "xz">>),
                            processed)

\* tool_name == "Extrude" and tool_name == "Revolve": the two branches have
\* the same text
ProcessExtrude(processed) ==
    LET raw == GetOr(processed, "operation", PyStr(<<"n", "e", "w">>))
    IN  IF raw.t # "str"
        THEN Raise("AttributeError", NoAttribute(raw, "lower"), processed)
        ELSE LET operation == Lower(raw.s)
             IN  IF operation = <<"n", "e", "w">>
                 THEN Return(Put(processed, "operation_code", Lit("NewBody")))
                 ELSE IF operation = <<"j", "o", "i", "n">>
                 THEN Return(Put(processed, "operation_code", Lit("JoinFeature")))
                 ELSE IF operation = <<"c", "u", "t">>
                 THEN Return(Put(processed, "operation_code", Lit("CutFeature")))
                 ELSE IF operation = <<"i", "n", "t", "e", "r", "s", "e", "c", "t">>
                 THEN Return(Put(processed, "operation_code", Lit("IntersectFeature")))
                 ELSE Raise("ValueError",
                            MustBeOneOf("Invalid operation:", operation,
                                        <<"new", ",", " ", "join", ",", " ", "cut",
                                          ",", " ", "intersect">>),
                            processed)

ProcessRevolve(processed) == ProcessExtrude(processed)

\* the elements a for loop takes from a value, each as the text str() gives;
\* iterating a str gives its characters
IterTexts(v) ==
    IF v.t = "list" THEN [i \in 1..Len(v.l) |-> IntText(v.l[i])]
    ELSE [i \in 1..Len(v.s) |-> <<v.s[i]>>]

\* a variant that stops after the first index
IndexCodeFirstOnly(items, select, add) ==
    IF items = <<>> THEN <<>> ELSE <<select>> \o Head(items) \o <<")", NL, add>>

\* the two statements per index, joined with "\n"
RECURSIVE IndexCode(_, _, _)
IndexCode(items, select, add) ==
    IF items = <<>> THEN <<>>
    ELSE <<select>> \o Head(items) \o <<")", NL, add>>
         \o (IF Len(items) = 1 THEN <<>>
             ELSE <<NL>> \o IndexCode(Tail(items), select, add))

\* a derivation that takes the fallback only when the key is not in the dict
ProcessIndicesIfPresent(processed, key, code_key, select, add, fallback) ==
    IF Has(processed, key)
    THEN IF Get(processed, key).t = "int"
         THEN Raise("TypeError", NotIterable(Get(processed, key)), processed)
         ELSE Return(Put(processed, code_key,
                         PyStr(IndexCode(IterTexts(Get(processed, key)), select, add))))
    ELSE Return(Put(processed, code_key, PyStr(fallback)))

\* the index-list derivation shared in text by Fillet, Chamfer and Shell
ProcessIndices(processed, key, code_key, select, add, fallback) ==
    LET indices == GetOr(processed, key, PyList(<<>>))
    IN  IF Truthy(indices)
        THEN IF indices.t = "int"
             THEN Raise("TypeError", NotIterable(indices), processed)
             ELSE Return(Put(processed, code_key,
                             PyStr(IndexCode(IterTexts(indices), select, add))))
        ELSE Return(Put(processed, code_key, PyStr(fallback)))

EdgeFallback ==
    <<"for edge in body.edges:", NL, "    ", "edgeCollection.add(edge)">>

\* tool_name == "Fillet"
ProcessFillet(processed) ==
    ProcessIndices(processed, "edge_indices", "edge_collection_code",
                   "edge = body.edges.item(", "edgeCollection.add(edge)", EdgeFallback)

\* tool_name == "Chamfer"
ProcessChamfer(processed) ==
    ProcessIndices(processed, "edge_indices", "edge_collection_code",
                   "edge = body.edges.item(", "edgeCollection.add(edge)", EdgeFallback)

\* tool_name == "Shell"
ProcessShell(processed) ==
    ProcessIndices(processed, "face_indices", "face_collection_code",
                   "face = body.faces.item(", "faceCollection.add(face)",
                   <<"# No faces selected for removal">>)

\* tool_name == "Combine"
ProcessCombine(processed) ==
    LET raw == GetOr(processed, "operation", PyStr(<<"j", "o", "i", "n">>))
    IN  IF raw.t # "str"
        THEN Raise("AttributeError", NoAttribute(raw, "lower"), processed)
        ELSE LET operation == Lower(raw.s)
             IN  IF operation = <<"j", "o", "i", "n">>
                 THEN Return(Put(processed, "operation_code", Lit("JoinFeature")))
                 ELSE IF operation = <<"c", "u", "t">>
                 THEN Return(Put(processed, "operation_code", Lit("CutFeature")))
                 ELSE IF operation = <<"i", "n", "t", "e", "r", "s", "e", "c", "t">>
                 THEN Return(Put(processed, "operation_code", Lit("IntersectFeature")))
                 ELSE Raise("ValueError",
                            MustBeOneOf("Invalid operation:", operation,
                                        <<"join", ",", " ", "cut", ",", " ", "intersect">>),
                            processed)

\* os.path.expanduser("~/Desktop") for the user the server runs as
DesktopDirectory == <<"/home/user", "/Desktop">>

\* tool_name == "ExportBody"
ProcessExportBody(processed) ==
    LET raw == GetOr(processed, "format", PyStr(<<"s", "t", "l">>))
    IN  IF raw.t # "str"
        THEN Raise("AttributeError", NoAttribute(raw, "lower"), processed)
        ELSE LET format == Lower(raw.s)
                 options ==
                     IF format = <<"s", "t", "l">>
                     THEN <<"options = exportMgr.createSTLExportOptions(body)">>
                     ELSE IF format = <<"o", "b", "j">>
                     THEN <<"options = exportMgr.createOBJExportOptions(body)">>
                     ELSE IF format = <<"s", "t", "e", "p">>
                     THEN <<"options = exportMgr.createSTEPExportOptions()">>
                     ELSE IF format = <<"i", "g", "e", "s">>
                     THEN <<"options = exportMgr.createIGESExportOptions()">>
                     ELSE IF format = <<"s", "a", "t">>
                     THEN <<"options = exportMgr.createSATExportOptions()">>
                     ELSE <<>>
             IN  IF options # <<>>
                 THEN Return(Put(Put(processed, "export_options_code", PyStr(options)),
                                 "directory", PyStr(DesktopDirectory)))
                 ELSE Raise("ValueError",
                            MustBeOneOf("Invalid format:", format,
                                        <<"stl", ",", " ", "obj", ",", " ", "step", ",",
                                          " ", "iges", ",", " ", "sat">>),
                            processed)

\* the if/elif chain on tool_name; a tool without a branch returns processed
ToolSpecific(tool_name, processed) ==
    CASE tool_name = "CreateSketch" -> ProcessCreateSketch(processed)
      [] tool_name = "Extrude" -> ProcessExtrude(processed)
      [] tool_name = "Revolve" -> ProcessRevolve(processed)
      [] tool_name = "Fillet" -> ProcessFillet(processed)
      [] tool_name = "Chamfer" -> ProcessChamfer(processed)
      [] tool_name = "Shell" -> ProcessShell(processed)
      [] tool_name = "Combine" -> ProcessCombine(processed)
      [] tool_name = "ExportBody" -> ProcessExportBody(processed)
      [] OTHER -> Return(processed)

\* what _process_parameters(tool_name, parameters) returns or raises, r being
\* the result of the tool-specific branch.  value is the processed dict;
\* parameters is the caller's dict object as the call leaves it
Processed(r, processed, parameters) ==
    [ok |-> r.ok, value |-> r.value, exc |-> r.exc, msg |-> r.msg,
     parameters |-> IF processed.is_new THEN parameters ELSE r.value]

\* the statements of _process_parameters after processed = parameters.copy()
ProcessCopy(tool_name, tool, processed, parameters) ==
    Processed(ToolSpecific(tool_name, ApplyDefaults(processed.dict, tool.parameters)),
              processed, parameters)

_process_parameters(registry, tool_name, parameters) ==
    ProcessCopy(tool_name, TOOLS_BY_NAME(registry, tool_name), copy(parameters),
                parameters)

(***************************************************************************)
(* str.format with keyword arguments, on a template.                       *)
(***************************************************************************)
\* a substitution that leaves a replacement field without a keyword argument
\* in the text
formatSkipMissing(template, kwargs) ==
    Return(Concat([i \in 1..Len(template) |->
                      IF ~template[i].ph THEN <<template[i].s>>
                      ELSE IF Has(kwargs, template[i].s)
                      THEN StrOf(Get(kwargs, template[i].s))
                      ELSE <<"{", template[i].s, "}">>]))

\* a substitution by position: the k-th replacement field of the template
\* takes the k-th value of the dict
formatPositional(template, kwargs) ==
    IF kwargs = <<>> THEN Raise("IndexError", <<>>, <<>>)
    ELSE Return(Concat([i \in 1..Len(template) |->
                           IF ~template[i].ph THEN <<template[i].s>>
                           ELSE StrOf(kwargs[((Cardinality({j \in 1..i : template[j].ph})
                                                - 1) % Len(kwargs)) + 1].v)]))

\* the first replacement field without a keyword argument raises KeyError
format(template, kwargs) ==
    LET missing == SelectSeq(Indices(template),
                             LAMBDA i : template[i].ph /\ ~Has(kwargs, template[i].s))
    IN  IF missing # <<>>
        THEN Raise("KeyError", <<"'", template[missing[1]].s, "'">>, <<>>)
        ELSE Return(Concat([i \in 1..Len(template) |->
                               IF template[i].ph THEN StrOf(Get(kwargs, template[i].s))
                               ELSE <<template[i].s>>]))

\* an indentation that prefixes the text as a whole
IndentBlock(text) == <<"        ">> \o Strip(text)

\* an indentation that leaves out the lines that are empty
IndentNoBlank(text) ==
    LET lines == SelectSeq(Split(Strip(text)), LAMBDA l : l # <<>>)
    IN  JoinNL([i \in 1..Len(lines) |-> <<"        ">> \o lines[i]])

\* "\n".join(f"        {line}" for line in text.strip().split("\n"))
Indent(text) ==
    LET lines == Split(Strip(text))
    IN  JoinNL([i \in 1..Len(lines) |-> <<"        ">> \o lines[i]])

\* BASE_SCRIPT_TEMPLATE.format(tool_scripts=indented_tool_script)
FullScript(indented_tool_script) ==
    format(BASE_SCRIPT_TEMPLATE,
           <<[k |-> "tool_scripts", v |-> PyStr(indented_tool_script)]>>).value

(***************************************************************************)
(* generate_script and generate_multi_tool_script.  An outcome carries     *)
(* the script or the exception, the caller's dict objects as the call      *)
(* leaves them, the processed dict of every call whose parameters were     *)
(* processed, and the trace of the steps the call went through.            *)
(***************************************************************************)
Step(i, what) == [call |-> i, step |-> what]

Outcome(ok, script, exc, msg, objs, processed, trace) ==
    [ok |-> ok, script |-> script, exc |-> exc, msg |-> msg, maps |-> objs,
     processed |-> processed, trace |-> trace]

UnknownTool(tool_name) == <<"Unknown tool:", " ", tool_name>>

NoTemplate(tool_name) == <<"No script template available for tool:", " ", tool_name>>

\* generate_script after template.format: the indentation and the full
\* script, or the exception format raised
FormatDone(f, p, trace) ==
    IF ~f.ok
    THEN Outcome(FALSE, <<>>, f.exc, f.msg, <<p.parameters>>, <<p.value>>, trace)
    ELSE Outcome(TRUE, FullScript(Indent(f.value)), "", <<>>, <<p.parameters>>,
                 <<p.value>>, trace)

\* generate_script after _process_parameters
ProcessDone(template, p, trace) ==
    IF ~p.ok
    THEN Outcome(FALSE, <<>>, p.exc, p.msg, <<p.parameters>>, <<>>, trace)
    ELSE FormatDone(format(template, p.value), p, Append(trace, Step(1, "format")))

\* generate_script after template = SCRIPT_TEMPLATES.get(tool_name)
TemplateDone(registry, tool_name, parameters, template) ==
    IF template = <<>>
    THEN Outcome(FALSE, <<>>, "ValueError", NoTemplate(tool_name), <<parameters>>,
                 <<>>, <<Step(1, "template")>>)
    ELSE ProcessDone(template, _process_parameters(registry, tool_name, parameters),
                     <<Step(1, "template"), Step(1, "process")>>)

\* generate_script(tool_name, parameters); parameters is the caller's dict
generate_script(registry, tool_name, parameters) ==
    IF ~InCatalog(registry, tool_name)
    THEN Outcome(FALSE, <<>>, "ValueError", UnknownTool(tool_name),
                 <<parameters>>, <<>>, <<>>)
    ELSE TemplateDone(registry, tool_name, parameters, SCRIPT_TEMPLATES(tool_name))

\* the loop body after template.format; script is the tool_script of call i
LoopFormatDone(f, p, objs, i) ==
    Outcome(f.ok, f.value, f.exc, f.msg, objs, <<p.value>>,
            <<Step(i, "template"), Step(i, "process"), Step(i, "format")>>)

\* the loop body after _process_parameters on the dict object ref
LoopProcessDone(template, p, objs, ref, i) ==
    IF ~p.ok
    THEN Outcome(FALSE, <<>>, p.exc, p.msg, [objs EXCEPT ![ref] = p.parameters],
                 <<>>, <<Step(i, "template"), Step(i, "process")>>)
    ELSE LoopFormatDone(format(template, p.value), p,
                        [objs EXCEPT ![ref] = p.parameters], i)

\* a variant of the loop body that formats whatever SCRIPT_TEMPLATES.get gave
LoopTemplateDoneUnchecked(registry, tool_name, ref, i, objs, template) ==
    LoopProcessDone(template, _process_parameters(registry, tool_name, objs[ref]),
                    objs, ref, i)

\* the loop body after template = SCRIPT_TEMPLATES.get(tool_name)
LoopTemplateDone(registry, tool_name, ref, i, objs, template) ==
    IF template = <<>>
    THEN Outcome(FALSE, <<>>, "ValueError", NoTemplate(tool_name), objs, <<>>,
                 <<Step(i, "template")>>)
    ELSE LoopProcessDone(template,
                         _process_parameters(registry, tool_name, objs[ref]),
                         objs, ref, i)

\* the body of the for loop of generate_multi_tool_script for call i
LoopBody(registry, calls, i, objs) ==
    IF ~InCatalog(registry, calls[i].tool_name)
    THEN Outcome(FALSE, <<>>, "ValueError", UnknownTool(calls[i].tool_name), objs,
                 <<>>, <<>>)
    ELSE LoopTemplateDone(registry, calls[i].tool_name, calls[i].parameters, i, objs,
                          SCRIPT_TEMPLATES(calls[i].tool_name))

\* a tool script is appended only when the list does not hold it yet
AppendScriptOnce(tool_scripts, tool_script) ==
    IF \E j \in 1..Len(tool_scripts) : tool_scripts[j] = tool_script
    THEN tool_scripts ELSE Append(tool_scripts, tool_script)

\* a variant that puts the newest fragment first
AppendScriptFront(tool_scripts, tool_script) == <<tool_script>> \o tool_scripts

\* tool_scripts.append(tool_script)
AppendScript(tool_scripts, tool_script) == Append(tool_scripts, tool_script)

RECURSIVE MultiLoop(_, _, _, _, _, _, _)

\* the loop after the body of call i: the exception of the body leaves the
\* function, a tool script is appended and the loop goes on
LoopBodyDone(registry, calls, i, tool_scripts, processed, trace, b) ==
    IF ~b.ok
    THEN Outcome(FALSE, <<>>, b.exc, b.msg, b.maps, processed \o b.processed,
                 trace \o b.trace)
    ELSE MultiLoop(registry, calls, i + 1, b.maps, AppendScript(tool_scripts, b.script),
                   processed \o b.processed, trace \o b.trace)

\* a loop that goes on after a call that failed and reports the failure of
\* the last call that failed
RECURSIVE MultiLoopKeepGoing(_, _, _, _, _, _, _)
MultiLoopKeepGoing(registry, calls, i, objs, tool_scripts, processed, trace) ==
    IF i > Len(calls)
    THEN Outcome(TRUE, FullScript(Indent(JoinNL(tool_scripts))), "", <<>>, objs,
                 processed, trace)
    ELSE LET b == LoopBody(registry, calls, i, objs)
             rest == MultiLoopKeepGoing(registry, calls, i + 1, b.maps,
                                        IF b.ok THEN AppendScript(tool_scripts, b.script)
                                        ELSE tool_scripts,
                                        processed \o b.processed, trace \o b.trace)
         IN  IF b.ok \/ ~rest.ok THEN rest
             ELSE Outcome(FALSE, <<>>, b.exc, b.msg, rest.maps, rest.processed,
                          rest.trace)

\* the for loop of generate_multi_tool_script from call i on, and the
\* statements after it; objs are the caller's dict objects, and
\* calls[i].parameters names the one call i carries
MultiLoop(registry, calls, i, objs, tool_scripts, processed, trace) ==
    IF i > Len(calls)
    THEN Outcome(TRUE, FullScript(Indent(JoinNL(tool_scripts))), "", <<>>, objs,
                 processed, trace)
    ELSE LoopBodyDone(registry, calls, i, tool_scripts, processed, trace,
                      LoopBody(registry, calls, i, objs))

\* generate_multi_tool_script(tool_calls)
generate_multi_tool_script(registry, calls, objs) ==
    MultiLoop(registry, calls, 1, objs, <<>>, <<>>, <<>>)

(***************************************************************************)
(* The requests the callers send: tool calls over the catalog's tools and  *)
(* an unknown tool, with parameter dicts that supply or omit each          *)
(* parameter and that carry accepted, differently cased, rejected and      *)
(* wrongly typed values.                                                   *)
(***************************************************************************)
Chars(w) ==
    CASE w = "xy" -> <<"x", "y">> [] w = "XY" -> <<"X", "Y">>
      [] w = "Xy" -> <<"X", "y">> [] w = "yz" -> <<"y", "z">>
      [] w = "xz" -> <<"x", "z">> [] w = "YZ" -> <<"Y", "Z">>
      [] w = "diagonal" -> <<"d", "i", "a", "g", "o", "n", "a", "l">>
      [] w = "Diagonal" -> <<"D", "i", "a", "g", "o", "n", "a", "l">>
      [] w = "new" -> <<"n", "e", "w">> [] w = "New" -> <<"N", "e", "w">>
      [] w = "join" -> <<"j", "o", "i", "n">> [] w = "JOIN" -> <<"J", "O", "I", "N">>
      [] w = "cut" -> <<"c", "u", "t">> [] w = "Cut" -> <<"C", "u", "t">>
      [] w = "CUT" -> <<"C", "U", "T">>
      [] w = "intersect" -> <<"i", "n", "t", "e", "r", "s", "e", "c", "t">>
      [] w = "Melt" -> <<"M", "e", "l", "t">>
      [] w = "stl" -> <<"s", "t", "l">> [] w = "obj" -> <<"o", "b", "j">>
      [] w = "OBJ" -> <<"O", "B", "J">> [] w = "Obj" -> <<"O", "b", "j">>
      [] w = "step" -> <<"s", "t", "e", "p">> [] w = "iges" -> <<"i", "g", "e", "s">>
      [] w = "sat" -> <<"s", "a", "t">> [] w = "Dwg" -> <<"D", "w", "g">>
      [] w = "part" -> <<"p", "a", "r", "t">> [] w = "ab" -> <<"a", "b">>
      [] w = "/out" -> <<"/", "o", "u", "t">>
      [] w = "a\nb" -> <<"a", NL, "b">>

Word(w) == PyStr(Chars(w))

\* the value a caller supplies for a parameter; it differs from the default
ExampleValue(name) ==
    CASE name \in {"width", "depth"} -> PyInt(10)
      [] name \in {"height", "radius"} -> PyInt(5)
      [] name \in {"distance", "thickness"} -> PyInt(2)
      [] name = "plane" -> Word("yz")
      [] name = "operation" -> Word("cut")
      [] name = "format" -> Word("obj")
      [] name = "filename" -> Word("part")
      [] name \in {"edge_indices", "face_indices", "profile_indices"} -> PyList(<<2, 0>>)
      [] name = "angle" -> PyInt(90)
      [] OTHER -> PyInt(3)

\* other values a caller supplies for a parameter
OtherValues(tool_name, name) ==
    CASE name = "plane" ->
             {Word("xy"), Word("XY"), Word("Xy"), Word("YZ"), Word("xz"),
              Word("diagonal"), Word("Diagonal"), PyInt(5), PyNone}
      [] name = "operation" ->
             {Word("new"), Word("New"), Word("join"), Word("JOIN"), Word("Cut"),
              Word("CUT"), Word("intersect"), Word("Melt"), PyInt(5)}
      [] name = "format" ->
             {Word("stl"), Word("OBJ"), Word("Obj"), Word("step"), Word("iges"),
              Word("sat"), Word("Dwg"), PyNone}
      [] name \in {"edge_indices", "face_indices"} ->
             {PyList(<<>>), PyList(<<1>>), PyList(<<1, 1>>), PyInt(3), Word("ab")}
      [] OTHER -> {}

AllTools == Append(BaseRegistry, LoftProfilesTool)

ParamNames(tool) == {tool.parameters[i].name : i \in 1..Len(tool.parameters)}

Required(tool) ==
    {tool.parameters[i].name : i \in {j \in 1..Len(tool.parameters) :
                                          ~tool.parameters[j].has_default}}

Optional(tool) == ParamNames(tool) \ Required(tool)

\* every parameter supplied, in the catalog's order
FullDict(tool) ==
    [i \in 1..Len(tool.parameters) |->
        [k |-> tool.parameters[i].name, v |-> ExampleValue(tool.parameters[i].name)]]

Without(d, names) == SelectSeq(d, LAMBDA e : e.k \notin names)

\* the sets of parameters a caller leaves out: none, any single one, every
\* optional one, every optional one and a single required one
OmitSets(tool) ==
    {{}} \cup {{n} : n \in ParamNames(tool)} \cup {Optional(tool)}
         \cup {Optional(tool) \cup {n} : n \in Required(tool)}

Dicts(tool) ==
    {Without(FullDict(tool), names) : names \in OmitSets(tool)}
    \cup UNION {{Put(FullDict(tool), n, v) : v \in OtherValues(tool.name, n)} :
                   n \in ParamNames(tool)}

Call(tool_name, parameters) == [tool_name |-> tool_name, parameters |-> parameters]

\* an export with a directory of the caller's choice
DirectoryCall ==
    Call("ExportBody",
         <<[k |-> "filename", v |-> Word("part")], [k |-> "directory", v |-> Word("/out")]>>)

\* an export whose filename holds a newline
MultiLineCall == Call("ExportBody", <<[k |-> "filename", v |-> Word("a\nb")]>>)

\* the calls a request of one call is drawn from
SinglePool ==
    UNION {{Call(AllTools[i].name, d) : d \in Dicts(AllTools[i])} :
              i \in 1..Len(AllTools)}
    \cup {Call("Teleport", <<>>), DirectoryCall, MultiLineCall}

RequiredOnly(tool) == Without(FullDict(tool), Optional(tool))

\* the calls a batch of several calls is drawn from: the calls of
\* tests/test_server.py test_call_tools, and calls that fail in each of the
\* ways a call can fail
BatchPool ==
    {Call("CreateSketch", <<[k |-> "plane", v |-> Word("xy")]>>),
     Call("DrawRectangle", RequiredOnly(AllTools[2])),
     Call("Extrude", RequiredOnly(AllTools[4])),
     Call("CreateSketch", <<[k |-> "plane", v |-> Word("Diagonal")]>>),
     Call("DrawRectangle", Without(RequiredOnly(AllTools[2]), {"depth"})),
     Call("Combine", <<>>),
     Call("LoftProfiles", RequiredOnly(LoftProfilesTool)),
     Call("Teleport", <<>>)}

BatchTools == {c.tool_name : c \in BatchPool}

\* the tools of the calls that reuse the dict of the call before them
SharedTools == {"CreateSketch", "Extrude", "Combine"}

(***************************************************************************)
(* The server: the loaded catalog, the request a caller holds (its list of *)
(* tool calls and the parameter dicts the calls refer to), and the answer  *)
(* of the handler that served it.                                          *)
(***************************************************************************)
VARIABLES
    registry_file,  \* tool_registry.json: missing, malformed, or the tools it holds
    server,         \* the server process: importing, serving, or the import error
    TOOL_REGISTRY,  \* the catalog as loaded at import
    tool_calls,     \* the calls of the request: tool_name and the dict it carries
    maps,           \* the caller's parameter dict objects
    sent,           \* the dicts as they were when the handler was entered
    outcome,        \* what generate_script / generate_multi_tool_script did
    response,       \* the answer of the transport
    listed,         \* the tools a list request was answered with
    callers,        \* the invocations of the generator running side by side
    mcp,            \* run_mcp_server: the lines of stdin, stdout and stderr
    config_file,    \* the MCP settings file tools/update_mcp_settings.py edits
    editor          \* the last call of a function of tools/ and what it returned

vars ==
    <<registry_file, server, TOOL_REGISTRY, tool_calls, maps, sent, outcome, response,
      listed, callers, mcp,
      config_file, editor>>

NoOutcome == Outcome(FALSE, <<>>, "", <<>>, <<>>, <<>>, <<>>)

NoResponse ==
    [via |-> "", handler |-> "", status |-> 0, code |-> 0, has_script |-> FALSE,
     script |-> <<>>, message |-> <<>>]

\* an HTTP response where every exception is answered with status 500
HttpResponseAll500(handler, o) ==
    IF o.ok
    THEN [via |-> "http", handler |-> handler, status |-> 200, code |-> 0,
          has_script |-> TRUE, script |-> o.script, message |-> <<"Success">>]
    ELSE [via |-> "http", handler |-> handler, status |-> 500, code |-> 0,
          has_script |-> FALSE, script |-> <<>>,
          message |-> <<"Error generating script:", " ">> \o o.msg]

\* the response of an HTTP route: the script, or HTTPException(400) for a
\* ValueError and HTTPException(500) for any other exception
HttpResponse(handler, o) ==
    IF o.ok
    THEN [via |-> "http", handler |-> handler, status |-> 200, code |-> 0,
          has_script |-> TRUE, script |-> o.script, message |-> <<"Success">>]
    ELSE IF o.exc = "ValueError"
    THEN [via |-> "http", handler |-> handler, status |-> 400, code |-> 0,
          has_script |-> FALSE, script |-> <<>>, message |-> o.msg]
    ELSE [via |-> "http", handler |-> handler, status |-> 500, code |-> 0,
          has_script |-> FALSE, script |-> <<>>,
          message |-> <<"Error generating script:", " ">> \o o.msg]

McpError(code, message) ==
    [via |-> "mcp", handler |-> "handle_request", status |-> 0, code |-> code,
     has_script |-> FALSE, script |-> <<>>, message |-> message]

\* the try block of McpServer._handle_call_tool
McpResponse(o) ==
    IF o.ok
    THEN [via |-> "mcp", handler |-> "handle_request", status |-> 0, code |-> 0,
          has_script |-> TRUE, script |-> o.script, message |-> <<>>]
    ELSE IF o.exc = "ValueError"
    THEN McpError(-32602, <<"Invalid params:", " ">> \o o.msg)
    ELSE McpError(-32603, <<"Internal error:", " ">> \o o.msg)

\* the answer to a list request
ListResponse(via, handler) ==
    [via |-> via, handler |-> handler, status |-> IF via = "http" THEN 200 ELSE 0,
     code |-> 0, has_script |-> FALSE, script |-> <<>>, message |-> <<>>]

\* tool_registry.json as open() and json.load find it
FileMissing == [state |-> "missing", tools |-> <<>>]

FileMalformed == [state |-> "malformed", tools |-> <<>>]

\* a JSON list in which a descriptor has no "name"
FileNameless == [state |-> "nameless", tools |-> <<>>]

FileOf(registry) == [state |-> "json", tools |-> registry]

\* processed[param_name] = param_info["default"] puts the catalog's own
\* default object into processed: for a parameter the caller left out, the
\* object holds after the call what processed holds under the name
DefaultAfter(param_info, parameters, processed) ==
    IF /\ param_info.has_default
       /\ ~Has(parameters, param_info.name)
       /\ Has(processed, param_info.name)
    THEN Get(processed, param_info.name)
    ELSE param_info.default

\* the descriptor of a tool after a call of the tool
ToolAfter(tool, parameters, processed) ==
    [tool EXCEPT !.parameters =
        [k \in 1..Len(tool.parameters) |->
            [tool.parameters[k] EXCEPT
                !.default = DefaultAfter(tool.parameters[k], parameters, processed)]]]

\* the catalog after the calls 1..j of a request whose parameters were
\* processed into processed[1..j]
RECURSIVE RegistryAfter(_, _, _, _, _)
RegistryAfter(registry, calls, objs, processed, j) ==
    IF j = 0 THEN registry
    ELSE [RegistryAfter(registry, calls, objs, processed, j - 1) EXCEPT
             ![CHOOSE n \in 1..Len(registry) : registry[n].name = calls[j].tool_name] =
                 ToolAfter(@, objs[calls[j].parameters], processed[j])]

Init ==
    /\ registry_file \in {FileMissing, FileMalformed, FileNameless, FileOf(BaseRegistry)}
    /\ server = "importing"
    /\ TOOL_REGISTRY = <<>>
    /\ tool_calls = <<>>
    /\ maps = <<>>
    /\ sent = <<>>
    /\ outcome = NoOutcome
    /\ response = NoResponse
    /\ listed = <<>>
    /\ callers = <<>>
    /\ mcp = <<>>
    /\ config_file = <<>>
    /\ editor = <<>>

\* tools/add_tool.py add_tool: the file is loaded, the tool is appended
\* unless a tool of the name exists, and the file is saved
add_tool(tool) ==
    /\ registry_file.state = "json"
    /\ \A n \in 1..Len(registry_file.tools) : registry_file.tools[n].name # tool.name
    /\ registry_file' = FileOf(Append(registry_file.tools, tool))
    /\ UNCHANGED <<editor, config_file, mcp, callers, server, TOOL_REGISTRY, tool_calls, maps, sent, outcome,
                   response, listed>>

\* a variant of the import that goes on with an empty catalog when the file
\* cannot be read
load_registryLenient ==
    /\ server = "importing"
    /\ server' = "serving"
    /\ TOOL_REGISTRY' = IF registry_file.state = "json" THEN registry_file.tools
                        ELSE <<>>
    /\ UNCHANGED <<editor, config_file, mcp, callers, registry_file, tool_calls, maps, sent, outcome, response,
                   listed>>

\* import of script_generator by main.py: open() raises FileNotFoundError,
\* json.load raises JSONDecodeError, tool["name"] raises KeyError after
\* TOOL_REGISTRY is bound, and the import of main.py fails with it
load_registry ==
    /\ server = "importing"
    /\ IF registry_file.state = "missing"
       THEN server' = "FileNotFoundError" /\ UNCHANGED TOOL_REGISTRY
       ELSE IF registry_file.state = "malformed"
       THEN server' = "JSONDecodeError" /\ UNCHANGED TOOL_REGISTRY
       ELSE IF registry_file.state = "nameless"
       THEN server' = "KeyError" /\ UNCHANGED TOOL_REGISTRY
       ELSE server' = "serving" /\ TOOL_REGISTRY' = registry_file.tools
    /\ UNCHANGED <<editor, config_file, mcp, callers, registry_file, tool_calls, maps, sent, outcome, response,
                   listed>>

Extendable ==
    \A i \in 1..Len(tool_calls) :
        /\ tool_calls[i].tool_name \in BatchTools
        /\ \E c \in BatchPool : c.parameters = maps[tool_calls[i].parameters]

\* the caller appends a call with a parameter dict of its own; a request
\* that waits for a server that does not serve holds one call
AddCall(c) ==
    /\ response = NoResponse
    /\ Len(tool_calls) < MaxCalls
    /\ server = "serving" \/ tool_calls = <<>>
    /\ IF tool_calls = <<>> THEN c \in SinglePool \cup BatchPool
       ELSE c \in BatchPool /\ Extendable
    /\ maps' = Append(maps, c.parameters)
    /\ tool_calls' = Append(tool_calls, Call(c.tool_name, Len(maps) + 1))
    /\ UNCHANGED <<editor, config_file, mcp, callers, registry_file, server, TOOL_REGISTRY, sent, outcome,
                   response, listed>>

\* the caller appends a call that reuses the dict object of the call before
AddCallShared(tool_name) ==
    /\ server = "serving"
    /\ response = NoResponse
    /\ tool_calls # <<>>
    /\ Len(tool_calls) < MaxCalls
    /\ Extendable
    /\ tool_name \in SharedTools
    /\ tool_calls' = Append(tool_calls,
                            Call(tool_name, tool_calls[Len(tool_calls)].parameters))
    /\ UNCHANGED <<editor, config_file, mcp, callers, registry_file, server, TOOL_REGISTRY, maps, sent, outcome,
                   response, listed>>

\* POST /call_tool
call_tool ==
    /\ server = "serving"
    /\ response = NoResponse
    /\ Len(tool_calls) = 1
    /\ outcome' = generate_script(TOOL_REGISTRY, tool_calls[1].tool_name, maps[1])
    /\ maps' = outcome'.maps
    /\ response' = HttpResponse("call_tool", outcome')
    /\ sent' = maps
    /\ TOOL_REGISTRY' = RegistryAfter(TOOL_REGISTRY, tool_calls, maps,
                                      outcome'.processed, Len(outcome'.processed))
    /\ UNCHANGED <<editor, config_file, mcp, callers, registry_file, server, tool_calls, listed>>

\* POST /call_tools
call_tools ==
    /\ server = "serving"
    /\ response = NoResponse
    /\ outcome' = generate_multi_tool_script(TOOL_REGISTRY, tool_calls, maps)
    /\ maps' = outcome'.maps
    /\ response' = HttpResponse("call_tools", outcome')
    /\ sent' = maps
    /\ TOOL_REGISTRY' = RegistryAfter(TOOL_REGISTRY, tool_calls, maps,
                                      outcome'.processed, Len(outcome'.processed))
    /\ UNCHANGED <<editor, config_file, mcp, callers, registry_file, server, tool_calls, listed>>

\* GET /tools: the response holds TOOL_REGISTRY
list_tools ==
    /\ server = "serving"
    /\ response = NoResponse
    /\ tool_calls = <<>>
    /\ response' = ListResponse("http", "list_tools")
    /\ listed' = TOOL_REGISTRY
    /\ UNCHANGED <<editor, config_file, mcp, callers, registry_file, server, TOOL_REGISTRY, tool_calls, maps,
                   sent, outcome>>

\* the names of a list of parameters, in its order
NamesOf(parameters) == [k \in 1..Len(parameters) |-> parameters[k].name]

\* a variant of the entry that names every parameter as required
InputSchemaAllRequired(tool) ==
    [name |-> tool.name,
     properties |-> [k \in 1..Len(tool.parameters) |->
                        [name |-> tool.parameters[k].name,
                         type |-> tool.parameters[k].type]],
     required |-> NamesOf(tool.parameters)]

\* the entry of McpServer._handle_list_tools for a tool: name, the type of
\* every parameter, and the parameters without a default
InputSchema(tool) ==
    [name |-> tool.name,
     properties |-> [k \in 1..Len(tool.parameters) |->
                        [name |-> tool.parameters[k].name,
                         type |-> tool.parameters[k].type]],
     required |-> NamesOf(SelectSeq(tool.parameters,
                                    LAMBDA param : ~param.has_default))]

\* a handler that drops the "default" key from every parameter of the
\* catalog while it builds the schemas
_handle_list_toolsPopDefault(registry) ==
    [tools |-> [n \in 1..Len(registry) |-> InputSchema(registry[n])],
     registry |-> [n \in 1..Len(registry) |->
                     [registry[n] EXCEPT !.parameters =
                         [k \in 1..Len(registry[n].parameters) |->
                             [registry[n].parameters[k] EXCEPT
                                 !.has_default = FALSE]]]]]

\* McpServer._handle_list_tools: the tools of the result, and the catalog
\* as the handler leaves it
_handle_list_tools(registry) ==
    [tools |-> [n \in 1..Len(registry) |-> InputSchema(registry[n])],
     registry |-> registry]

InRegistry(registry, tool_name) == InCatalog(registry, tool_name)

\* McpServer.handle_request for a request whose params are the call the
\* caller holds: {"method": method, "params": {"name": ..., "arguments": ...}};
\* a request without a call has empty params
handle_request(method) ==
    /\ server = "serving"
    /\ response = NoResponse
    /\ Len(tool_calls) <= 1
    /\ sent' = maps
    /\ UNCHANGED <<editor, config_file, mcp, callers, registry_file, server, tool_calls>>
    /\ IF method = "list_tools"
       THEN /\ tool_calls = <<>>
            /\ response' = ListResponse("mcp", "handle_request")
            /\ listed' = _handle_list_tools(TOOL_REGISTRY).tools
            /\ TOOL_REGISTRY' = _handle_list_tools(TOOL_REGISTRY).registry
            /\ UNCHANGED <<outcome, maps>>
       ELSE IF method # "call_tool"
       THEN /\ response' = McpError(-32601, <<"Method not found:", " ", method>>)
            /\ UNCHANGED <<TOOL_REGISTRY, outcome, maps, listed>>
       ELSE IF tool_calls = <<>>
       THEN /\ response' = McpError(-32602, <<"Invalid params: missing tool name">>)
            /\ UNCHANGED <<TOOL_REGISTRY, outcome, maps, listed>>
       ELSE IF ~InRegistry(TOOL_REGISTRY, tool_calls[1].tool_name)
       THEN /\ response' = McpError(-32602, <<"Invalid params: unknown tool:", " ",
                                              tool_calls[1].tool_name>>)
            /\ UNCHANGED <<TOOL_REGISTRY, outcome, maps, listed>>
       ELSE /\ outcome' = generate_script(TOOL_REGISTRY, tool_calls[1].tool_name,
                                           maps[1])
            /\ maps' = outcome'.maps
            /\ response' = McpResponse(outcome')
            /\ TOOL_REGISTRY' = RegistryAfter(TOOL_REGISTRY, tool_calls, maps,
                                              outcome'.processed,
                                              Len(outcome'.processed))
            /\ UNCHANGED listed

Methods == {"list_tools", "call_tool", "resources/list"}

\* the caller drops the answered request and starts the next one
NewRequest ==
    /\ response # NoResponse
    /\ tool_calls' = <<>>
    /\ maps' = <<>>
    /\ sent' = <<>>
    /\ outcome' = NoOutcome
    /\ response' = NoResponse
    /\ listed' = <<>>
    /\ UNCHANGED <<editor, config_file, mcp, callers, registry_file, server, TOOL_REGISTRY>>

Next ==
    \/ add_tool(LoftProfilesTool)
    \/ load_registry
    \/ list_tools
    \/ \E c \in SinglePool \cup BatchPool : AddCall(c)
    \/ \E tool_name \in SharedTools : AddCallShared(tool_name)
    \/ call_tool
    \/ call_tools
    \/ \E method \in Methods : handle_request(method)
    \/ NewRequest

Spec == Init /\ [][Next]_vars

(***************************************************************************)
(* Vocabulary of the properties.                                           *)
(***************************************************************************)
Answered == response # NoResponse

\* generate_script or generate_multi_tool_script was entered
FacadeCalled == outcome # NoOutcome

\* the dict call i carried when the handler was entered
Given(i) == sent[tool_calls[i].parameters]

Descriptor(i) == TOOLS_BY_NAME(TOOL_REGISTRY, tool_calls[i].tool_name)

Known(i) == InCatalog(TOOL_REGISTRY, tool_calls[i].tool_name)

\* the transport reports a fault of the caller
CallerFault ==
    /\ ~response.has_script
    /\ response.via = "http" => response.status = 400
    /\ response.via = "mcp" => response.code = -32602

\* the transport reports a fault of the server
ServerFault ==
    /\ ~response.has_script
    /\ response.via = "http" => response.status = 500
    /\ response.via = "mcp" => response.code = -32603

\* a request of one call answered by generate_script
OneCallAnswered ==
    /\ Answered
    /\ FacadeCalled
    /\ response.handler \in {"call_tool", "handle_request"}
    /\ Len(tool_calls) = 1

ProcessRan(i) == Step(i, "process") \in {outcome.trace[j] : j \in 1..Len(outcome.trace)}

\* _process_parameters returned for call i; its result is outcome.processed[i]
ProcessReturned(i) == ProcessRan(i) /\ i <= Len(outcome.processed)

\* sub occurs in txt as a run of consecutive tokens
Contains(txt, sub) ==
    \E i \in 1..(Len(txt) - Len(sub) + 1) : SubSeq(txt, i, i + Len(sub) - 1) = sub

\* the position of a key in a dict
Position(d, key) == CHOOSE i \in 1..Len(d) : d[i].k = key

(***************************************************************************)
(* C1: for every tool of the catalog and every parameter without a        *)
(* default, a call that omits just that required parameter is answered    *)
(* without a script and as a fault of the caller (HTTP 400, MCP -32602).   *)
(***************************************************************************)
OneRequiredOmitted ==
    /\ OneCallAnswered
    /\ Known(1)
    /\ Cardinality(Required(Descriptor(1)) \ Keys(Given(1))) = 1

C1_MissingRequiredIsCallerFault == OneRequiredOmitted => CallerFault

(***************************************************************************)
(* C2: when the parameters of a call are processed and the call supplies  *)
(* every required parameter and no optional one, processing returns and   *)
(* the processed dict maps every optional parameter to its declared       *)
(* default; every processed dict keeps the value of each catalog          *)
(* parameter the caller supplied, and holds the defaults it inserted      *)
(* before every key the tool-specific derivation added.                   *)
(***************************************************************************)
OnlyRequiredGiven(i) ==
    /\ Answered
    /\ ProcessRan(i)
    /\ Keys(Given(i)) = Required(Descriptor(i))

DefaultsIn(processed, tool) ==
    \A j \in 1..Len(tool.parameters) :
        tool.parameters[j].has_default =>
            /\ Has(processed, tool.parameters[j].name)
            /\ Get(processed, tool.parameters[j].name) = tool.parameters[j].default

SuppliedKept(processed, given, tool) ==
    \A k \in Keys(given) \cap ParamNames(tool) :
        Has(processed, k) /\ Get(processed, k) = Get(given, k)

DefaultsBeforeDerived(processed, given, tool) ==
    \A k \in Optional(tool) \ Keys(given) :
        \A d \in Keys(processed) \ (Keys(given) \cup ParamNames(tool)) :
            Has(processed, k) /\ Position(processed, k) < Position(processed, d)

C2_DefaultsFilled ==
    \A i \in 1..Len(tool_calls) :
        /\ OnlyRequiredGiven(i) =>
               ProcessReturned(i) /\ DefaultsIn(outcome.processed[i], Descriptor(i))
        /\ Answered /\ ProcessReturned(i) =>
               /\ SuppliedKept(outcome.processed[i], Given(i), Descriptor(i))
               /\ DefaultsBeforeDerived(outcome.processed[i], Given(i), Descriptor(i))

\* a call that leaves out its optional parameters was processed, and so was
\* a call that supplies an optional parameter with a value of its own
C2_Witness ==
    /\ \E i \in 1..Len(tool_calls) :
           /\ OnlyRequiredGiven(i)
           /\ Optional(Descriptor(i)) # {}
           /\ Keys(outcome.processed[i]) \ ParamNames(Descriptor(i)) # {}
    /\ response.has_script

(***************************************************************************)
(* C3: a call that supplies, for an enumerated-option parameter, a value   *)
(* outside the accepted set is answered without a script and as a fault of *)
(* the caller, and the message names the rejected value as supplied and    *)
(* every member of the accepted set.                                       *)
(***************************************************************************)
EnumTools == {"CreateSketch", "Extrude", "Revolve", "Combine", "ExportBody"}

EnumKey(tool_name) ==
    CASE tool_name = "CreateSketch" -> "plane"
      [] tool_name = "ExportBody" -> "format"
      [] OTHER -> "operation"

AcceptedNames(tool_name) ==
    CASE tool_name = "CreateSketch" -> {"xy", "yz", "xz"}
      [] tool_name = "ExportBody" -> {"stl", "obj", "step", "iges", "sat"}
      [] tool_name = "Combine" -> {"join", "cut", "intersect"}
      [] OTHER -> {"new", "join", "cut", "intersect"}

Accepted(tool_name) == {Chars(w) : w \in AcceptedNames(tool_name)}

EnumSupplied ==
    /\ OneCallAnswered
    /\ Known(1)
    /\ tool_calls[1].tool_name \in EnumTools
    /\ Has(Given(1), EnumKey(tool_calls[1].tool_name))

EnumValue == Get(Given(1), EnumKey(tool_calls[1].tool_name))

InAcceptedSet(tool_name, v) == v.t = "str" /\ Lower(v.s) \in Accepted(tool_name)

C3_RejectedEnumNamed ==
    EnumSupplied /\ ~InAcceptedSet(tool_calls[1].tool_name, EnumValue) =>
        /\ CallerFault
        /\ Contains(response.message, StrOf(EnumValue))
        /\ \A w \in AcceptedNames(tool_calls[1].tool_name) :
               Contains(response.message, <<w>>)

(***************************************************************************)
(* C4: a call that supplies an accepted enumerated value in any letter     *)
(* case gets the Program the same call gets with the value in lower case.  *)
(***************************************************************************)
LowerCased(v) == PyStr(Lower(v.s))

C4_CaseVariantsSameProgram ==
    EnumSupplied /\ InAcceptedSet(tool_calls[1].tool_name, EnumValue) =>
        LET lower == generate_script(TOOL_REGISTRY, tool_calls[1].tool_name,
                                     Put(Given(1), EnumKey(tool_calls[1].tool_name),
                                         LowerCased(EnumValue)))
        IN  /\ response.has_script = lower.ok
            /\ response.script = lower.script

(***************************************************************************)
(* C5: when every call of a batch is valid on its own, POST /call_tools    *)
(* returns a Program whose body is the bodies generate_script gives for    *)
(* the calls one by one, in the order of the calls and with repeated calls *)
(* repeated, each two separated by the two blank indented lines that the   *)
(* newlines around the fragments make.                                     *)
(***************************************************************************)
HolePos == CHOOSE i \in 1..Len(BASE_SCRIPT_TEMPLATE) : BASE_SCRIPT_TEMPLATE[i].ph

\* the text between the fixed prefix and the fixed suffix of a Program
BodyOf(script) ==
    SubSeq(script, HolePos, Len(script) - (Len(BASE_SCRIPT_TEMPLATE) - HolePos))

\* what generate_script does with call i alone
Own(i) == generate_script(TOOL_REGISTRY, tool_calls[i].tool_name, Given(i))

BlankLines == <<NL, "        ", NL, "        ", NL>>

BatchAnswered == Answered /\ response.handler = "call_tools"

AllValid == \A i \in 1..Len(tool_calls) : Own(i).ok

C5_OrderPreserved ==
    BatchAnswered /\ tool_calls # <<>> /\ AllValid =>
        /\ response.has_script
        /\ BodyOf(response.script) =
               Concat([i \in 1..Len(tool_calls) |->
                          IF i = 1 THEN BodyOf(Own(1).script)
                          ELSE BlankLines \o BodyOf(Own(i).script)])

\* a batch of valid calls that holds the same call twice and calls of
\* different tools
C5_Witness ==
    /\ BatchAnswered
    /\ AllValid
    /\ response.has_script
    /\ \E i, j \in 1..Len(tool_calls) :
           i < j /\ tool_calls[i].tool_name = tool_calls[j].tool_name
                 /\ Given(i) = Given(j)
    /\ \E i, j \in 1..Len(tool_calls) :
           i < j /\ BodyOf(Own(i).script) # BodyOf(Own(j).script)

(***************************************************************************)
(* C6: when call k is the first call of a batch that is invalid on its     *)
(* own, POST /call_tools answers with the error of call k, returns no      *)
(* script, and goes through no step of a call after k.                     *)
(***************************************************************************)
FirstInvalid(k) == ~Own(k).ok /\ \A j \in 1..(k - 1) : Own(j).ok

C6_FailFast ==
    \A k \in 1..Len(tool_calls) :
        BatchAnswered /\ FirstInvalid(k) =>
            /\ ~response.has_script
            /\ response.script = <<>>
            /\ outcome.exc = Own(k).exc
            /\ outcome.msg = Own(k).msg
            /\ response = HttpResponse("call_tools", Own(k))
            /\ \A j \in 1..Len(outcome.trace) : outcome.trace[j].call <= k

\* a batch with valid calls before its first invalid call and, after it, a
\* call that is invalid in another way
C6_Witness ==
    /\ BatchAnswered
    /\ \E k \in 2..Len(tool_calls) :
           /\ FirstInvalid(k)
           /\ \E j \in (k + 1)..Len(tool_calls) :
                  ~Own(j).ok /\ Own(j).msg # Own(k).msg

(***************************************************************************)
(* C7: a call of a tool name without a descriptor is answered without a    *)
(* script and as a fault of the caller (HTTP 400, MCP -32602) with the     *)
(* unknown-tool message, and neither the template lookup nor the           *)
(* parameter processing of that call takes place; in a batch this holds    *)
(* for the first unknown tool when the calls before it are valid.          *)
(***************************************************************************)
StepsOf(k) == {j \in 1..Len(outcome.trace) : outcome.trace[j].call = k}

C7_UnknownToolCallerFault ==
    /\ Answered /\ response.handler = "call_tool" /\ ~Known(1) =>
           /\ CallerFault
           /\ response.message = UnknownTool(tool_calls[1].tool_name)
           /\ outcome.trace = <<>>
           /\ outcome.processed = <<>>
    /\ Answered /\ response.handler = "handle_request" /\ response.code # -32601
           /\ Len(tool_calls) = 1 /\ ~Known(1) =>
           /\ CallerFault
           /\ Contains(response.message, <<tool_calls[1].tool_name>>)
           /\ ~FacadeCalled
    /\ \A k \in 1..Len(tool_calls) :
           BatchAnswered /\ ~Known(k) /\ (\A j \in 1..(k - 1) : Own(j).ok) =>
               /\ CallerFault
               /\ response.message = UnknownTool(tool_calls[k].tool_name)
               /\ StepsOf(k) = {}
               /\ Len(outcome.processed) = k - 1

\* a batch whose second call names an unknown tool, after a valid call
C7_Witness ==
    /\ BatchAnswered
    /\ Len(tool_calls) >= 2
    /\ Own(1).ok
    /\ ~Known(2)
    /\ response.status = 400

(***************************************************************************)
(* C8: a call of a tool that has a descriptor but no template is answered  *)
(* as a fault of the server (HTTP 500, MCP -32603), never with the status  *)
(* of a fault of the caller.                                               *)
(***************************************************************************)
NoTemplateCall ==
    /\ OneCallAnswered
    /\ Known(1)
    /\ SCRIPT_TEMPLATES(tool_calls[1].tool_name) = <<>>

C8_NoTemplateServerFault == NoTemplateCall => ServerFault

(***************************************************************************)
(* C9: whenever a replacement field of the template of a call has no key   *)
(* in the processed parameters of that call, the request fails with the    *)
(* KeyError of the substitution, is answered as a fault of the server and  *)
(* returns no script; and no script that is returned holds a replacement   *)
(* field left in braces.                                                   *)
(***************************************************************************)
FieldsOf(tool_name) ==
    {SCRIPT_TEMPLATES(tool_name)[j].s :
        j \in {n \in 1..Len(SCRIPT_TEMPLATES(tool_name)) :
                   SCRIPT_TEMPLATES(tool_name)[n].ph}}

MissingField(i) ==
    /\ ProcessReturned(i)
    /\ FieldsOf(tool_calls[i].tool_name) \ Keys(outcome.processed[i]) # {}

AllFields == UNION {FieldsOf(n) : n \in TemplateNames}

HasFieldInBraces(script) ==
    \E j \in 1..(Len(script) - 2) :
        script[j] = "{" /\ script[j + 1] \in AllFields /\ script[j + 2] = "}"

C9_NoPlaceholderSkipped ==
    Answered =>
        /\ (\E i \in 1..Len(tool_calls) : MissingField(i)) =>
               /\ ServerFault
               /\ outcome.exc = "KeyError"
               /\ response.script = <<>>
        /\ response.has_script => ~HasFieldInBraces(response.script)

\* a call whose processed parameters lack a field of the template, in a
\* batch after a valid call
C9_Witness ==
    /\ BatchAnswered
    /\ Len(tool_calls) >= 2
    /\ MissingField(2)

(***************************************************************************)
(* C10: after every request, answered with a script or with an error,      *)
(* every parameter dict of the caller holds the entries it held when the   *)
(* handler was entered; and a batch whose calls share a dict is answered   *)
(* as the same batch with a fresh copy of the dict for every call.         *)
(***************************************************************************)
FreshCalls == [i \in 1..Len(tool_calls) |-> Call(tool_calls[i].tool_name, i)]

FreshDicts == [i \in 1..Len(tool_calls) |-> Given(i)]

C10_InputNotMutated ==
    Answered =>
        /\ maps = sent
        /\ response.handler = "call_tools" =>
               response = HttpResponse("call_tools",
                              generate_multi_tool_script(TOOL_REGISTRY, FreshCalls,
                                                         FreshDicts))

\* a batch answered with a script in which two calls of different tools
\* share a dict to which processing adds keys
C10_Witness ==
    /\ BatchAnswered
    /\ response.has_script
    /\ \E i, j \in 1..Len(tool_calls) :
           /\ i < j
           /\ tool_calls[i].parameters = tool_calls[j].parameters
           /\ tool_calls[i].tool_name # tool_calls[j].tool_name
           /\ outcome.processed[i] # Given(i)

(***************************************************************************)
(* C11: request handling never changes the catalog: once the server        *)
(* serves, no list request, call or batch, answered with a script or with  *)
(* an error, leaves TOOL_REGISTRY (the tools, their parameters and the     *)
(* default objects) different from what it was, although processed holds   *)
(* the default objects themselves.                                         *)
(***************************************************************************)
C11_CatalogNeverMutated ==
    [][server = "serving" => TOOL_REGISTRY' = TOOL_REGISTRY]_vars

\* a call answered with a script whose processed dict holds the list object
\* that is the catalog's default of edge_indices
C11_Witness ==
    /\ OneCallAnswered
    /\ response.has_script
    /\ tool_calls[1].tool_name = "Fillet"
    /\ ~Has(Given(1), "edge_indices")
    /\ Get(outcome.processed[1], "edge_indices") = PyList(<<>>)
    /\ TOOL_REGISTRY \in Registries

(***************************************************************************)
(* C12: generate_script is deterministic: a call answers with the script   *)
(* (or fails) as generate_script does on the catalog as loaded, whatever   *)
(* requests the server answered before, and the script is the same for     *)
(* every insertion order of the keys of the parameter dict.                *)
(***************************************************************************)
\* the catalog as the import loaded it
Loaded == CHOOSE r \in Registries : Len(r) = Len(TOOL_REGISTRY)

Reverse(d) == [i \in 1..Len(d) |-> d[Len(d) + 1 - i]]

Rotate(d) == IF d = <<>> THEN d ELSE Append(Tail(d), Head(d))

\* insertion orders of the keys of a dict
Orders(d) == {d, Reverse(d), Rotate(d), Reverse(Rotate(d))}

SameProgram(o1, o2) == o1.ok = o2.ok /\ o1.script = o2.script

C12_Deterministic ==
    OneCallAnswered =>
        \A d \in Orders(Given(1)) :
            SameProgram(outcome, generate_script(Loaded, tool_calls[1].tool_name, d))

\* a call answered with a script whose dict has three keys or more, so that
\* the orders differ
C12_Witness ==
    /\ OneCallAnswered
    /\ response.has_script
    /\ Len(Given(1)) >= 3
    /\ Cardinality(Orders(Given(1))) = 4

(***************************************************************************)
(* C13: the processed parameters hold every key the caller supplied, with  *)
(* the value the caller supplied: defaults and derived keys are only       *)
(* added, for every tool, ExportBody with a "directory" of the caller      *)
(* included.                                                               *)
(***************************************************************************)
C13_SuppliedValuesKept ==
    \A i \in 1..Len(tool_calls) :
        Answered /\ ProcessReturned(i) =>
            \A k \in Keys(Given(i)) :
                /\ Has(outcome.processed[i], k)
                /\ Get(outcome.processed[i], k) = Get(Given(i), k)

(***************************************************************************)
(* C14: when the index list of a Fillet, Chamfer or Shell call is empty or *)
(* absent, the derivation does not raise and takes the fallback of the     *)
(* tool: Fillet and Chamfer get the loop that adds every edge of the body  *)
(* to the collection, Shell gets a comment only and adds no face.          *)
(***************************************************************************)
IndexTools == {"Fillet", "Chamfer", "Shell"}

IndexKey(tool_name) == IF tool_name = "Shell" THEN "face_indices" ELSE "edge_indices"

CodeKey(tool_name) ==
    IF tool_name = "Shell" THEN "face_collection_code" ELSE "edge_collection_code"

AllEdgesLoop == <<"for edge in body.edges:", NL, "    ", "edgeCollection.add(edge)">>

NoFacesComment == <<"# No faces selected for removal">>

EmptyOrAbsent(i) ==
    \/ ~Has(Given(i), IndexKey(tool_calls[i].tool_name))
    \/ Get(Given(i), IndexKey(tool_calls[i].tool_name)) = PyList(<<>>)

C14_EmptyIndexFallback ==
    \A i \in 1..Len(tool_calls) :
        /\ Answered
        /\ ProcessRan(i)
        /\ tool_calls[i].tool_name \in IndexTools
        /\ EmptyOrAbsent(i)
        => /\ ProcessReturned(i)
           /\ Has(outcome.processed[i], CodeKey(tool_calls[i].tool_name))
           /\ Get(outcome.processed[i], CodeKey(tool_calls[i].tool_name)) =
                  PyStr(IF tool_calls[i].tool_name = "Shell" THEN NoFacesComment
                        ELSE AllEdgesLoop)
           /\ response.has_script /\ Len(tool_calls) = 1 =>
                  IF tool_calls[i].tool_name = "Shell"
                  THEN /\ Contains(outcome.script, NoFacesComment)
                       /\ ~Contains(outcome.script, <<"faceCollection.add(face)">>)
                  ELSE Contains(outcome.script, <<"for edge in body.edges:">>)

\* a Shell call with an empty list of faces is answered with a script
C14_Witness ==
    /\ OneCallAnswered
    /\ response.has_script
    /\ tool_calls[1].tool_name = "Shell"
    /\ Has(Given(1), "face_indices")
    /\ Get(Given(1), "face_indices") = PyList(<<>>)

(***************************************************************************)
(* C15: every script returned is the fixed scaffold around the body: the   *)
(* text of BASE_SCRIPT_TEMPLATE before the body, the body with each of its *)
(* lines (blank lines and the lines a multi-line parameter value makes     *)
(* included) behind 8 spaces, and the text of BASE_SCRIPT_TEMPLATE after   *)
(* the body, whatever the tools and the parameter values.                  *)
(***************************************************************************)
ScaffoldPrefix == [i \in 1..(HolePos - 1) |-> BASE_SCRIPT_TEMPLATE[i].s]

ScaffoldSuffix ==
    [i \in 1..(Len(BASE_SCRIPT_TEMPLATE) - HolePos) |->
        BASE_SCRIPT_TEMPLATE[HolePos + i].s]

\* the lines of the body without their first 8 spaces
Unindented(body) ==
    JoinNL([i \in 1..Len(Split(body)) |-> Tail(Split(body)[i])])

\* the fragment the template of call 1 gives with the processed parameters
Fragment1 ==
    format(SCRIPT_TEMPLATES(tool_calls[1].tool_name), outcome.processed[1]).value

C15_FixedScaffold ==
    Answered /\ response.has_script =>
        /\ Len(response.script) >= Len(BASE_SCRIPT_TEMPLATE)
        /\ SubSeq(response.script, 1, HolePos - 1) = ScaffoldPrefix
        /\ SubSeq(response.script,
                  Len(response.script) - Len(ScaffoldSuffix) + 1,
                  Len(response.script)) = ScaffoldSuffix
        /\ \A i \in 1..Len(Split(BodyOf(response.script))) :
               /\ Split(BodyOf(response.script))[i] # <<>>
               /\ Split(BodyOf(response.script))[i][1] = "        "
        /\ Len(tool_calls) = 1 =>
               Unindented(BodyOf(response.script)) = Strip(Fragment1)

\* a script whose body holds a line made by a newline in a parameter value
C15_Witness ==
    /\ OneCallAnswered
    /\ response.has_script
    /\ Given(1) = MultiLineCall.parameters
    /\ Contains(response.script, <<"a", NL, "        ", "b">>)

(***************************************************************************)
(* C16: a valid call posted to /call_tool is answered with status 200, a   *)
(* script and a message, and the script contains the name of the tool      *)
(* called; a valid sequence posted to /call_tools is answered with status  *)
(* 200 and the script contains the name of every tool called.              *)
(***************************************************************************)
\* The pieces of the template texts in which a tool name occurs (str `in`
\* is case-sensitive: "extrudes" does not hold "Extrude"). Only the comment
\* lines of six templates do; no name occurs in BASE_SCRIPT_TEMPLATE or in
\* the text _process_parameters makes.
NameTokens(name) ==
    CASE name = "Extrude" -> {"# Extrude the profile"}
      [] name = "Revolve" -> {"# Revolve the profile"}
      [] name = "Fillet"  -> {"# Fillet edges"}
      [] name = "Chamfer" -> {"# Chamfer edges"}
      [] name = "Shell"   -> {"# Shell the body"}
      [] name = "Combine" -> {"# Combine bodies"}
      [] OTHER -> {}

\* name in script
Mentions(script, name) ==
    \E i \in 1..Len(script) : script[i] \in NameTokens(name)

C16_ScriptNamesTool ==
    /\ Answered /\ response.handler = "call_tool" /\ Len(tool_calls) = 1
           /\ response.status = 200 =>
           /\ response.has_script
           /\ response.message = <<"Success">>
           /\ Mentions(response.script, tool_calls[1].tool_name)
    /\ BatchAnswered /\ response.status = 200 =>
           \A i \in 1..Len(tool_calls) :
               Mentions(response.script, tool_calls[i].tool_name)

(***************************************************************************)
(* C17: the batch CreateSketch{plane: xy}, DrawRectangle{width: 10,        *)
(* depth: 10}, Extrude{height: 5} succeeds, and its script holds the       *)
(* sketch, rectangle and extrude fragments in that order: the rectangle    *)
(* from the default origin 0, 0, 0, the extrusion of profiles.item(0) as   *)
(* a new body (the text of box.py, lines 13 to 32).                        *)
(***************************************************************************)
ScenarioC ==
    <<Call("CreateSketch", <<[k |-> "plane", v |-> Word("xy")]>>),
      Call("DrawRectangle", <<[k |-> "width", v |-> PyInt(10)],
                              [k |-> "depth", v |-> PyInt(10)]>>),
      Call("Extrude", <<[k |-> "height", v |-> PyInt(5)]>>)>>

IsScenarioC ==
    /\ Len(tool_calls) = Len(ScenarioC)
    /\ \A i \in 1..Len(tool_calls) :
           /\ tool_calls[i].tool_name = ScenarioC[i].tool_name
           /\ Given(i) = ScenarioC[i].parameters

SketchFragment ==
    <<"        ", "# Create a new sketch on the", " ", "x", "y", " ", "plane", NL,
      "        ", "sketches = component.sketches", NL,
      "        ", "xyPlane = component.xYConstructionPlane", NL,
      "        ", "sketch = sketches.add(", "xyPlane", ")", NL>>

RectangleFragment ==
    <<"        ", "# Draw a rectangle", NL,
      "        ",
      "rectangle = sketch.sketchCurves.sketchLines.addTwoPointRectangle(", NL,
      "        ", "    ", "adsk.core.Point3D.create(",
      "0", ",", " ", "0", ",", " ", "0", "),", NL,
      "        ", "    ", "adsk.core.Point3D.create(",
      "0", " ", "+", " ", "1", "0", ",", " ",
      "0", " ", "+", " ", "1", "0", ",", " ", "0", ")", NL,
      "        ", ")", NL>>

ExtrudeFragment ==
    <<"        ", "# Extrude the profile", NL,
      "        ", "prof = sketch.profiles.item(", "0", ")", NL,
      "        ", "extrudes = component.features.extrudeFeatures", NL,
      "        ",
      "extInput = extrudes.createInput(prof, adsk.fusion.FeatureOperations.",
      "NewBody", "FeatureOperation)", NL,
      "        ", "distance = adsk.core.ValueInput.createByReal(", "5", ")", NL,
      "        ", "extInput.setDistanceExtent(False, distance)", NL,
      "        ", "extrude = extrudes.add(extInput)", NL>>

\* the two blank lines between two fragments
FragmentGap == <<"        ", NL, "        ", NL>>

C17_ScenarioC ==
    BatchAnswered /\ IsScenarioC =>
        /\ response.status = 200
        /\ response.has_script
        /\ Contains(response.script,
                    SketchFragment \o FragmentGap \o RectangleFragment
                        \o FragmentGap \o ExtrudeFragment)

\* the batch of scenario C was answered
C17_Witness == BatchAnswered /\ IsScenarioC /\ response.has_script

(***************************************************************************)
(* C18: generate_script on a tool name and a parameter dict, and           *)
(* generate_multi_tool_script on the list of that one call, have the same  *)
(* outcome: the same script when they succeed, the same exception with the *)
(* same message when they fail.                                            *)
(***************************************************************************)
SameOutcome(o1, o2) ==
    /\ o1.ok = o2.ok
    /\ o1.script = o2.script
    /\ o1.exc = o2.exc
    /\ o1.msg = o2.msg

C18_OneIsManyOfOne ==
    Answered /\ FacadeCalled /\ Len(tool_calls) = 1 =>
        /\ SameOutcome(generate_script(Loaded, tool_calls[1].tool_name, Given(1)),
                       generate_multi_tool_script(Loaded, tool_calls, sent))
        /\ SameOutcome(outcome,
                       IF response.handler = "call_tools"
                       THEN generate_script(Loaded, tool_calls[1].tool_name, Given(1))
                       ELSE generate_multi_tool_script(Loaded, tool_calls, sent))

\* a list of one call was answered by /call_tools with a script
C18_Witness ==
    /\ BatchAnswered
    /\ Len(tool_calls) = 1
    /\ response.has_script

(***************************************************************************)
(* Invocations side by side.  Each caller runs generate_script,            *)
(* generate_multi_tool_script or _handle_list_tools on arguments of its    *)
(* own; the statements of the callers interleave.  What the callers all    *)
(* reach is the module-level TOOL_REGISTRY (TOOLS_BY_NAME holds the same   *)
(* tool objects); tool_scripts, processed, the loop index and the dicts a  *)
(* caller passes are its own.                                              *)
(***************************************************************************)
Callers == 2

Invocation(kind, calls) == [kind |-> kind, calls |-> calls]

InvocationPool ==
    {Invocation("generate_script",
                <<Call("Fillet", RequiredOnly(TOOLS_BY_NAME(BaseRegistry, "Fillet")))>>),
     Invocation("generate_script",
                <<Call("Fillet", FullDict(TOOLS_BY_NAME(BaseRegistry, "Fillet")))>>),
     Invocation("generate_script",
                <<Call("CreateSketch", <<[k |-> "plane", v |-> Word("Diagonal")]>>)>>),
     Invocation("generate_multi_tool_script",
                <<Call("CreateSketch", <<[k |-> "plane", v |-> Word("xy")]>>),
                  Call("Shell", RequiredOnly(TOOLS_BY_NAME(BaseRegistry, "Shell")))>>),
     Invocation("generate_multi_tool_script",
                <<Call("Extrude", RequiredOnly(TOOLS_BY_NAME(BaseRegistry, "Extrude"))),
                  Call("Teleport", <<>>)>>),
     Invocation("_handle_list_tools", <<>>)}

\* what a function returned or raised
Result(ok, script, exc, msg) == [ok |-> ok, script |-> script, exc |-> exc, msg |-> msg]

\* a caller: the function it runs and the locals of the function
Frame(pc, kind, calls, objs, i, tool_scripts, processed, result, tools, overlapped) ==
    [pc |-> pc, kind |-> kind, calls |-> calls, objs |-> objs, i |-> i,
     tool_scripts |-> tool_scripts, processed |-> processed, result |-> result,
     tools |-> tools, overlapped |-> overlapped]

Idle ==
    Frame("idle", "", <<>>, <<>>, 0, <<>>, <<>>, Result(FALSE, <<>>, "", <<>>), <<>>,
          FALSE)

\* another caller is inside a function
OthersRunning(c) ==
    \E d \in 1..Callers : d # c /\ callers[d].pc \notin {"idle", "done"}

\* caller c goes on with the frame f
Advance(c, f) ==
    callers' = [callers EXCEPT
                   ![c] = [f EXCEPT !.overlapped = @ \/ OthersRunning(c)]]

Returned(f, result) == [f EXCEPT !.pc = "done", !.result = result]

InitConcurrent ==
    /\ registry_file = FileOf(BaseRegistry)
    /\ server = "serving"
    /\ TOOL_REGISTRY = BaseRegistry
    /\ tool_calls = <<>>
    /\ maps = <<>>
    /\ sent = <<>>
    /\ outcome = NoOutcome
    /\ response = NoResponse
    /\ listed = <<>>
    /\ callers = [c \in 1..Callers |-> Idle]
    /\ mcp = <<>>
    /\ config_file = <<>>
    /\ editor = <<>>

\* the call of the function with its arguments
Invoke(c, inv) ==
    /\ callers[c].pc = "idle"
    /\ Advance(c, [callers[c] EXCEPT
                      !.pc = IF inv.kind = "_handle_list_tools" THEN "list"
                             ELSE "lookup",
                      !.kind = inv.kind,
                      !.calls = inv.calls,
                      !.objs = [j \in 1..Len(inv.calls) |-> inv.calls[j].parameters],
                      !.i = 1])
    /\ UNCHANGED <<editor, config_file, mcp, registry_file, server, TOOL_REGISTRY, tool_calls, maps, sent,
                   outcome, response, listed>>

\* tool_name not in TOOLS_BY_NAME, SCRIPT_TEMPLATES.get(tool_name)
LookedUp(f, registry, tool_name) ==
    IF ~InCatalog(registry, tool_name)
    THEN Returned(f, Result(FALSE, <<>>, "ValueError", UnknownTool(tool_name)))
    ELSE IF SCRIPT_TEMPLATES(tool_name) = <<>>
    THEN Returned(f, Result(FALSE, <<>>, "ValueError", NoTemplate(tool_name)))
    ELSE [f EXCEPT !.pc = "process"]

Lookup(c) ==
    /\ callers[c].pc = "lookup"
    /\ Advance(c, LookedUp(callers[c], TOOL_REGISTRY,
                           callers[c].calls[callers[c].i].tool_name))
    /\ UNCHANGED <<editor, config_file, mcp, registry_file, server, TOOL_REGISTRY, tool_calls, maps, sent,
                   outcome, response, listed>>

\* processed_params = _process_parameters(tool_name, parameters)
ProcessedFrame(f, p) ==
    IF ~p.ok
    THEN Returned([f EXCEPT !.objs[f.i] = p.parameters],
                  Result(FALSE, <<>>, p.exc, p.msg))
    ELSE [f EXCEPT !.pc = "format", !.objs[f.i] = p.parameters,
                   !.processed = Append(@, p.value)]

\* a variant in which the values of a call become the defaults of the tool
RegistryProcessedLearning(registry, tool_name, parameters, p) ==
    IF ~p.ok THEN registry
    ELSE [registry EXCEPT
             ![CHOOSE n \in 1..Len(registry) : registry[n].name = tool_name] =
                 ToolAfter(@, <<>>, p.value)]

\* the catalog after _process_parameters gave p for the dict parameters
RegistryProcessed(registry, tool_name, parameters, p) ==
    IF ~p.ok THEN registry
    ELSE [registry EXCEPT
             ![CHOOSE n \in 1..Len(registry) : registry[n].name = tool_name] =
                 ToolAfter(@, parameters, p.value)]

Process(c) ==
    /\ callers[c].pc = "process"
    /\ Advance(c, ProcessedFrame(callers[c],
                      _process_parameters(TOOL_REGISTRY,
                                          callers[c].calls[callers[c].i].tool_name,
                                          callers[c].objs[callers[c].i])))
    /\ TOOL_REGISTRY' =
           RegistryProcessed(TOOL_REGISTRY, callers[c].calls[callers[c].i].tool_name,
                             callers[c].objs[callers[c].i],
                             _process_parameters(TOOL_REGISTRY,
                                 callers[c].calls[callers[c].i].tool_name,
                                 callers[c].objs[callers[c].i]))
    /\ UNCHANGED <<editor, config_file, mcp, registry_file, server, tool_calls, maps, sent, outcome, response,
                   listed>>

\* tool_script = template.format(**processed_params), and the end of the
\* loop body of generate_multi_tool_script
FormattedFrame(f, t) ==
    IF ~t.ok
    THEN Returned(f, Result(FALSE, <<>>, t.exc, t.msg))
    ELSE [f EXCEPT !.tool_scripts = AppendScript(@, t.value),
                   !.i = @ + 1,
                   !.pc = IF f.i < Len(f.calls) THEN "lookup" ELSE "compose"]

Format(c) ==
    /\ callers[c].pc = "format"
    /\ Advance(c, FormattedFrame(callers[c],
                      format(SCRIPT_TEMPLATES(callers[c].calls[callers[c].i].tool_name),
                             callers[c].processed[Len(callers[c].processed)])))
    /\ UNCHANGED <<editor, config_file, mcp, registry_file, server, TOOL_REGISTRY, tool_calls, maps, sent,
                   outcome, response, listed>>

\* join, strip, indent and BASE_SCRIPT_TEMPLATE.format
Compose(c) ==
    /\ callers[c].pc = "compose"
    /\ Advance(c, Returned(callers[c],
                           Result(TRUE,
                                  FullScript(Indent(JoinNL(callers[c].tool_scripts))),
                                  "", <<>>)))
    /\ UNCHANGED <<editor, config_file, mcp, registry_file, server, TOOL_REGISTRY, tool_calls, maps, sent,
                   outcome, response, listed>>

\* McpServer._handle_list_tools
ListTools(c) ==
    /\ callers[c].pc = "list"
    /\ Advance(c, [callers[c] EXCEPT
                      !.pc = "done",
                      !.tools = _handle_list_tools(TOOL_REGISTRY).tools])
    /\ TOOL_REGISTRY' = _handle_list_tools(TOOL_REGISTRY).registry
    /\ UNCHANGED <<editor, config_file, mcp, registry_file, server, tool_calls, maps, sent, outcome, response,
                   listed>>

NextConcurrent ==
    \/ \E c \in 1..Callers : \E inv \in InvocationPool : Invoke(c, inv)
    \/ \E c \in 1..Callers : Lookup(c)
    \/ \E c \in 1..Callers : Process(c)
    \/ \E c \in 1..Callers : Format(c)
    \/ \E c \in 1..Callers : Compose(c)
    \/ \E c \in 1..Callers : ListTools(c)

SpecConcurrent == InitConcurrent /\ [][NextConcurrent]_vars

(***************************************************************************)
(* C19: however the statements of several callers interleave, each call of *)
(* generate_script, generate_multi_tool_script and _handle_list_tools      *)
(* returns what it returns when it runs alone on the catalog as loaded.    *)
(***************************************************************************)
\* the calls of a caller as generate_multi_tool_script gets them
OwnCalls(c) ==
    [j \in 1..Len(callers[c].calls) |-> Call(callers[c].calls[j].tool_name, j)]

OwnDicts(c) == [j \in 1..Len(callers[c].calls) |-> callers[c].calls[j].parameters]

Alone(c) ==
    IF callers[c].kind = "generate_script"
    THEN generate_script(BaseRegistry, callers[c].calls[1].tool_name,
                         callers[c].calls[1].parameters)
    ELSE generate_multi_tool_script(BaseRegistry, OwnCalls(c), OwnDicts(c))

C19_NoInterference ==
    \A c \in 1..Callers :
        callers # <<>> /\ callers[c].pc = "done" =>
            IF callers[c].kind = "_handle_list_tools"
            THEN callers[c].tools = _handle_list_tools(BaseRegistry).tools
            ELSE SameOutcome(callers[c].result, Alone(c))

\* a generate_multi_tool_script call and a generate_script call ran in each
\* other's middle, and both returned a script
C19_Witness ==
    /\ callers # <<>>
    /\ \E c, d \in 1..Callers :
           /\ callers[c].pc = "done" /\ callers[d].pc = "done"
           /\ callers[c].overlapped /\ callers[d].overlapped
           /\ callers[c].kind = "generate_multi_tool_script"
           /\ callers[c].result.ok
           /\ callers[d].kind = "generate_script"
           /\ callers[d].result.ok

(***************************************************************************)
(* C20: the catalog is loaded once, when the process starts and before a   *)
(* request is handled; when the file is missing or cannot be parsed, or    *)
(* the load stops half way, the process ends with the error and never      *)
(* answers a request; a process that answers holds the whole catalog of    *)
(* the file as it was at the load, whatever happens to the file later.     *)
(***************************************************************************)
LoadErrors == {"FileNotFoundError", "JSONDecodeError", "KeyError"}

Handled == response # NoResponse \/ outcome # NoOutcome \/ listed # <<>>

ListAnswered == Answered /\ listed # <<>>

\* the names of the parameters of a tool that have no default
WithoutDefault(tool) ==
    {tool.parameters[k].name :
        k \in {j \in 1..Len(tool.parameters) : ~tool.parameters[j].has_default}}

C21_ListingStable ==
    ListAnswered =>
        /\ Len(listed) = Len(Loaded)
        /\ \A n \in 1..Len(listed) : listed[n].name = Loaded[n].name
        /\ response.via = "http" => listed = Loaded
        /\ response.via = "mcp" =>
               \A n \in 1..Len(listed) :
                   /\ {listed[n].required[k] : k \in 1..Len(listed[n].required)} =
                          WithoutDefault(Loaded[n])
                   /\ Len(listed[n].required) = Cardinality(WithoutDefault(Loaded[n]))
                   /\ Len(listed[n].properties) = Len(Loaded[n].parameters)

\* list_tools over MCP was answered for a catalog in which a tool has
\* parameters with and without a default
C21_Witness ==
    /\ ListAnswered
    /\ response.via = "mcp"
    /\ \E n \in 1..Len(listed) :
           /\ listed[n].required # <<>>
           /\ Len(listed[n].required) < Len(listed[n].properties)

(***************************************************************************)
(* C22: every call of generate_script and generate_multi_tool_script ends  *)
(* after one pass (no step of a call is taken twice) with one outcome: a   *)
(* script, or an error of one of the classes UnknownTool,                  *)
(* MissingRequiredParameter, InvalidParameterValue, UnknownTemplate,       *)
(* TemplateSubstitutionError; never with a failure outside these classes.  *)
(***************************************************************************)
\* the class of the exception a call ended with: the ValueError raised for
\* a name outside the catalog, for a tool without a template and for a
\* rejected plane, operation or format, and the KeyError of str.format for
\* a placeholder without a key; no code raises for a missing parameter
ErrorClass(o) ==
    IF o.exc = "ValueError" /\ o.msg # <<>> /\ o.msg[1] = "Unknown tool:"
    THEN "UnknownTool"
    ELSE IF o.exc = "ValueError" /\ o.msg # <<>>
            /\ o.msg[1] = "No script template available for tool:"
    THEN "UnknownTemplate"
    ELSE IF o.exc = "ValueError" THEN "InvalidParameterValue"
    ELSE IF o.exc = "KeyError" THEN "TemplateSubstitutionError"
    ELSE "unclassified"

SinglePass ==
    \A i, j \in 1..Len(outcome.trace) : i # j => outcome.trace[i] # outcome.trace[j]

C22_OneClassifiedOutcome ==
    Answered /\ FacadeCalled =>
        /\ SinglePass
        /\ outcome.ok <=> outcome.exc = ""
        /\ outcome.ok <=> response.has_script
        /\ ~outcome.ok => ErrorClass(outcome) # "unclassified"

(***************************************************************************)
(* C23: for a non-empty list under edge_indices (Fillet, Chamfer) or       *)
(* face_indices (Shell) the derived code holds, for element i of the list, *)
(* the line that selects item(idx_i) and then the line that adds it to the *)
(* collection: 2 x len(list) lines, in list order, a repeated index        *)
(* repeated, and neither the loop over all edges nor the no-faces comment. *)
(***************************************************************************)
SelectText(tool_name) ==
    IF tool_name = "Shell" THEN "face = body.faces.item("
    ELSE "edge = body.edges.item("

AddText(tool_name) ==
    IF tool_name = "Shell" THEN "faceCollection.add(face)"
    ELSE "edgeCollection.add(edge)"

\* call 1 names an index tool and carries a non-empty list of indices
IndexListGiven ==
    /\ OneCallAnswered
    /\ tool_calls[1].tool_name \in IndexTools
    /\ Has(Given(1), IndexKey(tool_calls[1].tool_name))
    /\ Get(Given(1), IndexKey(tool_calls[1].tool_name)).t = "list"
    /\ Get(Given(1), IndexKey(tool_calls[1].tool_name)).l # <<>>

IndexList == Get(Given(1), IndexKey(tool_calls[1].tool_name)).l

DerivedLines == Split(Get(outcome.processed[1], CodeKey(tool_calls[1].tool_name)).s)

C23_OnePairPerIndex ==
    IndexListGiven /\ ProcessReturned(1) =>
        /\ Len(DerivedLines) = 2 * Len(IndexList)
        /\ \A i \in 1..Len(IndexList) :
               /\ DerivedLines[2 * i - 1] =
                      <<SelectText(tool_calls[1].tool_name)>>
                          \o IntText(IndexList[i]) \o <<")">>
               /\ DerivedLines[2 * i] = <<AddText(tool_calls[1].tool_name)>>
        /\ response.has_script =>
               /\ \A i \in 1..Len(IndexList) :
                      Contains(response.script,
                               <<"        ", SelectText(tool_calls[1].tool_name)>>
                                   \o IntText(IndexList[i])
                                   \o <<")", NL, "        ",
                                        AddText(tool_calls[1].tool_name), NL>>)
               /\ Len(SelectSeq(response.script,
                                LAMBDA t : t = SelectText(tool_calls[1].tool_name))) =
                      Len(IndexList)
               /\ ~Contains(response.script, <<"for edge in body.edges:">>)
               /\ ~Contains(response.script, NoFacesComment)

\* a Chamfer call with the list [1, 1] was answered with a script
C23_Witness ==
    /\ IndexListGiven
    /\ response.has_script
    /\ tool_calls[1].tool_name = "Chamfer"
    /\ IndexList = <<1, 1>>

(***************************************************************************)
(* C24: CreateSketch with plane xy, yz or xz binds the construction plane  *)
(* of that name to the variable of that name (xYConstructionPlane to       *)
(* xyPlane, yZConstructionPlane to yzPlane, xZConstructionPlane to         *)
(* xzPlane) and calls sketches.add with the variable just bound; with      *)
(* plane xy the call succeeds and the script refers to the xy plane.       *)
(***************************************************************************)
AcceptedPlanes == {<<"x", "y">>, <<"y", "z">>, <<"x", "z">>}

PlaneVar(plane) ==
    CASE plane = <<"x", "y">> -> "xyPlane"
      [] plane = <<"y", "z">> -> "yzPlane"
      [] plane = <<"x", "z">> -> "xzPlane"

PlaneStatement(plane) ==
    CASE plane = <<"x", "y">> -> "xyPlane = component.xYConstructionPlane"
      [] plane = <<"y", "z">> -> "yzPlane = component.yZConstructionPlane"
      [] plane = <<"x", "z">> -> "xzPlane = component.xZConstructionPlane"

\* call 1 is CreateSketch with one of the three plane values
PlaneGiven ==
    /\ OneCallAnswered
    /\ tool_calls[1].tool_name = "CreateSketch"
    /\ Known(1)
    /\ Has(Given(1), "plane")
    /\ Get(Given(1), "plane").t = "str"
    /\ Get(Given(1), "plane").s \in AcceptedPlanes

C24_PlaneConsistent ==
    PlaneGiven =>
        /\ response.has_script
        /\ Contains(response.script,
                    <<"        ", PlaneStatement(Get(Given(1), "plane").s), NL,
                      "        ", "sketch = sketches.add(",
                      PlaneVar(Get(Given(1), "plane").s), ")", NL>>)
        /\ \A other \in AcceptedPlanes \ {Get(Given(1), "plane").s} :
               /\ ~Contains(response.script, <<PlaneStatement(other)>>)
               /\ ~Contains(response.script, <<PlaneVar(other)>>)

\* CreateSketch with plane yz was answered
C24_Witness == PlaneGiven /\ Get(Given(1), "plane").s = <<"y", "z">>

(***************************************************************************)
(* C25: for every accepted operation of Extrude, Revolve and Combine the   *)
(* script names the constant adsk.fusion.FeatureOperations.<Op> followed   *)
(* by FeatureOperation once, where <Op> is NewBody for new, Join for join, *)
(* Cut for cut and Intersect for intersect.                                *)
(***************************************************************************)
OperationTools == {"Extrude", "Revolve", "Combine"}

OpName(operation) ==
    CASE operation = <<"n", "e", "w">> -> "NewBody"
      [] operation = <<"j", "o", "i", "n">> -> "Join"
      [] operation = <<"c", "u", "t">> -> "Cut"
      [] operation = <<"i", "n", "t", "e", "r", "s", "e", "c", "t">> -> "Intersect"

\* call 1 names an operation tool and was answered with a script
OperationEmitted ==
    /\ OneCallAnswered
    /\ tool_calls[1].tool_name \in OperationTools
    /\ response.has_script

\* the operation of call 1, given or default, in lower case
OperationOf1 == Lower(Get(outcome.processed[1], "operation").s)

\* the piece of the template behind {operation_code}
OperationSuffix ==
    IF tool_calls[1].tool_name = "Combine" THEN "FeatureOperation"
    ELSE "FeatureOperation)"

C25_OperationConstant ==
    OperationEmitted =>
        /\ Get(outcome.processed[1], "operation_code") = Lit(OpName(OperationOf1))
        /\ Contains(response.script, <<OpName(OperationOf1), OperationSuffix, NL>>)

(***************************************************************************)
(* The MCP line loop: run_mcp_server reads stdin line by line; a line is   *)
(* parsed with json.loads, handed to McpServer.handle_request, and the     *)
(* response is written to stdout as one line and flushed; what json.loads  *)
(* or handle_request raise is reported on stderr.                          *)
(***************************************************************************)
MaxLines == 3

\* the "params" of a request: no such key, null, or an object with "name"
\* and "arguments"
Params(t, has_name, name, arguments) ==
    [t |-> t, has_name |-> has_name, name |-> name, arguments |-> arguments]

\* a line of stdin
Line(json, object, has_method, method, params) ==
    [json |-> json, object |-> object, has_method |-> has_method, method |-> method,
     params |-> params]

Request(method, params) == Line(TRUE, TRUE, TRUE, method, params)

LinePool ==
    {\* text json.loads rejects, and a JSON value that is not an object
     Line(FALSE, FALSE, FALSE, "", Params("absent", FALSE, "", <<>>)),
     Line(TRUE, FALSE, FALSE, "", Params("absent", FALSE, "", <<>>)),
     \* a request without "method"
     Line(TRUE, TRUE, FALSE, "", Params("absent", FALSE, "", <<>>)),
     Request("list_tools", Params("absent", FALSE, "", <<>>)),
     Request("resources/list", Params("absent", FALSE, "", <<>>)),
     Request("call_tool", Params("absent", FALSE, "", <<>>)),
     Request("call_tool", Params("null", FALSE, "", <<>>)),
     Request("call_tool", Params("dict", FALSE, "", <<>>)),
     Request("call_tool",
             Params("dict", TRUE, "CreateSketch", <<[k |-> "plane", v |-> Word("xy")]>>)),
     Request("call_tool",
             Params("dict", TRUE, "CreateSketch",
                    <<[k |-> "plane", v |-> Word("Diagonal")]>>)),
     Request("call_tool",
             Params("dict", TRUE, "DrawRectangle", <<[k |-> "width", v |-> PyInt(10)]>>)),
     Request("call_tool", Params("dict", TRUE, "Teleport", <<>>))}

\* what handle_request did with a request: the response it returned, or the
\* exception it raised; o is what generate_script did, if it was called
McpHandled(raised, exc, resp, o) ==
    [raised |-> raised, exc |-> exc, response |-> resp, outcome |-> o]

\* McpServer._handle_call_tool(params); params.get raises on None
_handle_call_tool(registry, params) ==
    IF params.t = "null"
    THEN McpHandled(TRUE, "AttributeError", NoResponse, NoOutcome)
    ELSE IF ~params.has_name
    THEN McpHandled(FALSE, "",
                 McpError(-32602, <<"Invalid params: missing tool name">>), NoOutcome)
    ELSE IF ~InRegistry(registry, params.name)
    THEN McpHandled(FALSE, "",
                 McpError(-32602, <<"Invalid params: unknown tool:", " ", params.name>>),
                 NoOutcome)
    ELSE LET o == generate_script(registry, params.name, params.arguments)
         IN  McpHandled(FALSE, "", McpResponse(o), o)

\* McpServer.handle_request(request) for a request that is a JSON object;
\* request.get("params", {}) gives {} without the key and None for null
McpServer_handle_request(registry, request) ==
    IF request.has_method /\ request.method = "list_tools"
    THEN McpHandled(FALSE, "", ListResponse("mcp", "handle_request"), NoOutcome)
    ELSE IF request.has_method /\ request.method = "call_tool"
    THEN _handle_call_tool(registry, request.params)
    ELSE McpHandled(FALSE, "",
                 McpError(-32601, <<"Method not found:", " ",
                                    IF request.has_method THEN request.method
                                    ELSE "None">>),
                 NoOutcome)

\* sys.stdout.write(json.dumps(response) + "\n") and flush, while k lines
\* have been read
Written(m, k, resp) ==
    [m EXCEPT !.stdout = Append(@, [line |-> k, at |-> Len(m.stdin), response |-> resp])]

\* sys.stderr.write(f"Error: ...") in the except clauses
Reported(m, k, exc) ==
    [m EXCEPT !.stderr = Append(@, [line |-> k, exc |-> exc])]

\* a variant of the loop body that leaves the loop after an error
LoopBodyStopOnError(m, k, line, h) ==
    IF ~line.json THEN [Reported(m, k, "JSONDecodeError") EXCEPT !.state = "ended"]
    ELSE IF ~line.object
    THEN [Reported(m, k, "AttributeError") EXCEPT !.state = "ended"]
    ELSE IF h.raised THEN [Reported(m, k, h.exc) EXCEPT !.state = "ended"]
    ELSE Written(m, k, h.response)

\* the body of the for loop for line k, m.stdin holding the lines read
LoopBody_run_mcp_server(m, k, line, h) ==
    IF ~line.json THEN Reported(m, k, "JSONDecodeError")
    ELSE IF ~line.object THEN Reported(m, k, "AttributeError")
    ELSE IF h.raised THEN Reported(m, k, h.exc)
    ELSE Written(m, k, h.response)

\* what handle_request does with the line, when the loop gets that far
HandledLine(registry, line) ==
    IF line.json /\ line.object THEN McpServer_handle_request(registry, line)
    ELSE McpHandled(FALSE, "", NoResponse, NoOutcome)

InitMcpLoop ==
    /\ registry_file = FileOf(BaseRegistry)
    /\ server = "serving"
    /\ TOOL_REGISTRY = BaseRegistry
    /\ tool_calls = <<>>
    /\ maps = <<>>
    /\ sent = <<>>
    /\ outcome = NoOutcome
    /\ response = NoResponse
    /\ listed = <<>>
    /\ callers = <<>>
    /\ mcp = [state |-> "reading", eof |-> FALSE, stdin |-> <<>>, stdout |-> <<>>,
              stderr |-> <<>>, last |-> McpHandled(FALSE, "", NoResponse, NoOutcome)]
    /\ config_file = <<>>
    /\ editor = <<>>

\* one turn of for line in sys.stdin
ReadLine(line) ==
    /\ mcp.state = "reading"
    /\ Len(mcp.stdin) < MaxLines
    /\ mcp' = [LoopBody_run_mcp_server([mcp EXCEPT !.stdin = Append(@, line)],
                                       Len(mcp.stdin) + 1, line,
                                       HandledLine(TOOL_REGISTRY, line))
                  EXCEPT !.last = HandledLine(TOOL_REGISTRY, line)]
    /\ TOOL_REGISTRY' =
           RegistryAfter(TOOL_REGISTRY, <<Call(line.params.name, 1)>>,
                         <<line.params.arguments>>, mcp'.last.outcome.processed,
                         Len(mcp'.last.outcome.processed))
    /\ UNCHANGED <<editor, config_file, registry_file, server, tool_calls, maps, sent, outcome, response,
                   listed, callers>>

\* sys.stdin is at its end: the for loop is left
EndOfInput ==
    /\ mcp.state = "reading"
    /\ mcp' = [mcp EXCEPT !.state = "ended", !.eof = TRUE]
    /\ UNCHANGED <<editor, config_file, registry_file, server, TOOL_REGISTRY, tool_calls, maps, sent, outcome,
                   response, listed, callers>>

NextMcpLoop ==
    \/ \E line \in LinePool : ReadLine(line)
    \/ EndOfInput

SpecMcpLoop == InitMcpLoop /\ [][NextMcpLoop]_vars

\* the line the loop read last, and whether handle_request was called on it
LastLine == mcp.stdin[Len(mcp.stdin)]

RequestRead == mcp # <<>> /\ mcp.stdin # <<>> /\ LastLine.json /\ LastLine.object

\* the error code the request calls for, 0 for a result
CodeCalledFor(line, o) ==
    IF line.has_method /\ line.method = "list_tools" THEN 0
    ELSE IF ~(line.has_method /\ line.method = "call_tool") THEN -32601
    ELSE IF line.params.t # "dict" \/ ~line.params.has_name THEN -32602
    ELSE IF ~InRegistry(BaseRegistry, line.params.name) THEN -32602
    ELSE IF o.ok THEN 0
    ELSE IF o.exc = "ValueError" THEN -32602
    ELSE -32603

\* C26: handle_request is total on request objects: it never raises, returns
\* exactly one of a result and an error, and the error code is -32601 for an
\* unknown or missing method, -32602 for call_tool without a tool name, with a
\* name not in the catalog or with a caller error of generation, and -32603
\* for any other failure of generation.
C26_HandleRequestTotal ==
    RequestRead =>
        /\ ~mcp.last.raised
        /\ mcp.last.response # NoResponse
        /\ mcp.last.response.code = CodeCalledFor(LastLine, mcp.last.outcome)
        /\ (mcp.last.response.code = 0) =
               (mcp.last.response.has_script \/ LastLine.method = "list_tools")

\* the same statement for requests whose "params" is absent or an object
C26_TotalOnObjectParams ==
    (RequestRead /\ LastLine.params.t # "null") =>
        /\ ~mcp.last.raised
        /\ mcp.last.response # NoResponse
        /\ mcp.last.response.code = CodeCalledFor(LastLine, mcp.last.outcome)
        /\ (mcp.last.response.code = 0) =
               (mcp.last.response.has_script \/ LastLine.method = "list_tools")

\* the stdout lines that answer line k, and whether line k was reported
AnswersTo(k) == {i \in 1..Len(mcp.stdout) : mcp.stdout[i].line = k}

BadLine(k) == \E i \in 1..Len(mcp.stderr) : mcp.stderr[i].line = k

EmptyBatchAnswered == BatchAnswered /\ tool_calls = <<>>

\* C28: generate_multi_tool_script over an empty list of calls does not fail:
\* the script is the fixed text of BASE_SCRIPT_TEMPLATE around a body that
\* is one line of 8 spaces, and no tool's fragment is in it.
C28_EmptyBatch ==
    EmptyBatchAnswered =>
        /\ outcome.ok
        /\ response.status = 200
        /\ response.has_script
        /\ response.script = ScaffoldPrefix \o <<"        ">> \o ScaffoldSuffix
        /\ BodyOf(response.script) = <<"        ">>
        /\ outcome.processed = <<>>
        /\ \A i \in 1..Len(TOOL_REGISTRY) :
               ~Mentions(response.script, TOOL_REGISTRY[i].name)

C28_Witness ==
    /\ EmptyBatchAnswered
    /\ response.has_script
    /\ BodyOf(response.script) = <<"        ">>

(***************************************************************************)
(* The scripts of tools/.  add_tool.py edits tool_registry.json: add_tool  *)
(* loads the file, refuses a name that exists, appends the descriptor and  *)
(* saves; add_tool_from_json reads a definition and hands its four fields  *)
(* to add_tool.  update_mcp_settings.py edits the MCP settings file, whose *)
(* "mcpServers" maps a server name to its entry.  A function's result is   *)
(* what it returns, or the exception it raises, and the file it leaves.    *)
(***************************************************************************)
\* the definitions handed to the editor: the descriptor, and the keys the
\* JSON file of add_tool_from_json holds
DefinitionPool ==
    LET FourFields == {"name", "description", "parameters", "docs"}
        SweepTool == Tool("SweepProfile", <<Req("profile_index", "integer")>>)
    IN  {[tool |-> t, fields |-> FourFields] :
            t \in {LoftProfilesTool, SweepTool, BaseRegistry[1], BaseRegistry[4]}}
        \cup {[tool |-> LoftProfilesTool, fields |-> FourFields \ {f}] : f \in FourFields}
        \cup {[tool |-> BaseRegistry[1], fields |-> {"name", "parameters"}]}

\* add_tool(name, description, parameters, docs)
AddToolUnchecked(file, tool) ==
    IF file.state = "missing" THEN [returned |-> "FileNotFoundError", file |-> file]
    ELSE IF file.state = "malformed" THEN [returned |-> "JSONDecodeError", file |-> file]
    ELSE IF file.state = "nameless" THEN [returned |-> "KeyError", file |-> file]
    ELSE [returned |-> "True", file |-> FileOf(Append(file.tools, tool))]

AddTool(file, tool) ==
    IF file.state = "missing" THEN [returned |-> "FileNotFoundError", file |-> file]
    ELSE IF file.state = "malformed" THEN [returned |-> "JSONDecodeError", file |-> file]
    ELSE IF file.state = "nameless" THEN [returned |-> "KeyError", file |-> file]
    ELSE IF \E n \in 1..Len(file.tools) : file.tools[n].name = tool.name
    THEN [returned |-> "False", file |-> file]
    ELSE [returned |-> "True", file |-> FileOf(Append(file.tools, tool))]

\* add_tool_from_json(json_file)
AddToolFromJson(file, definition) ==
    IF "name" \notin definition.fields THEN [returned |-> "False", file |-> file]
    ELSE IF "description" \notin definition.fields
    THEN [returned |-> "False", file |-> file]
    ELSE IF "parameters" \notin definition.fields
    THEN [returned |-> "False", file |-> file]
    ELSE IF "docs" \notin definition.fields THEN [returned |-> "False", file |-> file]
    ELSE AddTool(file, definition.tool)

\* the names update_mcp_settings.py is called with
ServerNames == {"fusion360", "github", "filesystem"}

\* the settings files: none, one json.load rejects, one without
\* "mcpServers", and files with the entry update_mcp_settings writes (with
\* "disabled" false or true) or one written by hand without "disabled",
\* beside another server's entry or alone
ConfigPool ==
    LET Written360(d) == <<[k |-> "command", v |-> "python3"],
                           [k |-> "args", v |-> "src/main.py --mcp"],
                           [k |-> "env", v |-> "{}"],
                           [k |-> "disabled", v |-> d],
                           [k |-> "autoApprove", v |-> "[]"]>>
        ByHand == <<[k |-> "command", v |-> "python3"],
                    [k |-> "args", v |-> "src/main.py --mcp"]>>
        GitHub(d) == <<[k |-> "disabled", v |-> d], [k |-> "command", v |-> "npx"]>>
        Rest == <<[k |-> "theme", v |-> "dark"]>>
        Json(servers) == [state |-> "json", has_mcpServers |-> TRUE,
                          mcpServers |-> servers, rest |-> Rest]
    IN  {[state |-> "missing", has_mcpServers |-> FALSE, mcpServers |-> <<>>,
          rest |-> <<>>],
         [state |-> "malformed", has_mcpServers |-> FALSE, mcpServers |-> <<>>,
          rest |-> <<>>],
         [state |-> "json", has_mcpServers |-> FALSE, mcpServers |-> <<>>,
          rest |-> Rest],
         Json(<<>>),
         Json(<<[k |-> "github", v |-> GitHub("false")]>>)}
        \cup {Json(<<[k |-> "fusion360", v |-> e]>>) :
                 e \in {Written360("false"), Written360("true"), ByHand}}
        \cup {Json(<<[k |-> "github", v |-> GitHub("true")],
                     [k |-> "fusion360", v |-> e]>>) :
                 e \in {Written360("false"), Written360("true"), ByHand}}
        \cup {Json(<<[k |-> "fusion360", v |-> Written360("true")],
                     [k |-> "github", v |-> GitHub("false")]>>)}

\* a variant that gives a server without the field no "disabled"
SetDisabledPresentOnly(file, server_name, value) ==
    IF file.state # "json" THEN [returned |-> "False", file |-> file]
    ELSE IF ~file.has_mcpServers THEN [returned |-> "False", file |-> file]
    ELSE IF ~Has(file.mcpServers, server_name) THEN [returned |-> "False", file |-> file]
    ELSE IF ~Has(Get(file.mcpServers, server_name), "disabled")
    THEN [returned |-> "True", file |-> file]
    ELSE [returned |-> "True",
          file |-> [file EXCEPT !.mcpServers =
                       Put(@, server_name,
                           Put(Get(@, server_name), "disabled", value))]]

\* enable_mcp_server and disable_mcp_server:
\* config["mcpServers"][server_name]["disabled"] = value, and the file saved
SetDisabled(file, server_name, value) ==
    IF file.state # "json" THEN [returned |-> "False", file |-> file]
    ELSE IF ~file.has_mcpServers THEN [returned |-> "False", file |-> file]
    ELSE IF ~Has(file.mcpServers, server_name) THEN [returned |-> "False", file |-> file]
    ELSE [returned |-> "True",
          file |-> [file EXCEPT !.mcpServers =
                       Put(@, server_name,
                           Put(Get(@, server_name), "disabled", value))]]

\* remove_mcp_server: del config["mcpServers"][server_name], and the file saved
Removed(file, server_name) ==
    IF file.state # "json" THEN [returned |-> "False", file |-> file]
    ELSE IF ~file.has_mcpServers THEN [returned |-> "False", file |-> file]
    ELSE IF ~Has(file.mcpServers, server_name) THEN [returned |-> "False", file |-> file]
    ELSE [returned |-> "True",
          file |-> [file EXCEPT !.mcpServers = Without(@, {server_name})]]

InitTools ==
    /\ registry_file \in {FileMissing, FileMalformed, FileNameless, FileOf(BaseRegistry)}
    /\ config_file \in ConfigPool
    /\ editor = [fn |-> "", arg |-> "", returned |-> ""]
    /\ server = "importing"
    /\ TOOL_REGISTRY = <<>>
    /\ tool_calls = <<>>
    /\ maps = <<>>
    /\ sent = <<>>
    /\ outcome = NoOutcome
    /\ response = NoResponse
    /\ listed = <<>>
    /\ callers = <<>>
    /\ mcp = <<>>

\* python tools/add_tool.py add: add_tool(args.name, ...)
EditorAddTool(tool) ==
    /\ editor' = [fn |-> "add_tool", arg |-> tool.name,
                  returned |-> AddTool(registry_file, tool).returned]
    /\ registry_file' = AddTool(registry_file, tool).file
    /\ UNCHANGED <<config_file, mcp, callers, server, TOOL_REGISTRY, tool_calls, maps,
                   sent, outcome, response, listed>>

\* python tools/add_tool.py add-json
add_tool_from_json(definition) ==
    /\ editor' = [fn |-> "add_tool_from_json", arg |-> definition.tool.name,
                  returned |-> AddToolFromJson(registry_file, definition).returned]
    /\ registry_file' = AddToolFromJson(registry_file, definition).file
    /\ UNCHANGED <<config_file, mcp, callers, server, TOOL_REGISTRY, tool_calls, maps,
                   sent, outcome, response, listed>>

enable_mcp_server(server_name) ==
    /\ editor' = [fn |-> "enable_mcp_server", arg |-> server_name,
                  returned |-> SetDisabled(config_file, server_name, "false").returned]
    /\ config_file' = SetDisabled(config_file, server_name, "false").file
    /\ UNCHANGED <<registry_file, mcp, callers, server, TOOL_REGISTRY, tool_calls, maps,
                   sent, outcome, response, listed>>

disable_mcp_server(server_name) ==
    /\ editor' = [fn |-> "disable_mcp_server", arg |-> server_name,
                  returned |-> SetDisabled(config_file, server_name, "true").returned]
    /\ config_file' = SetDisabled(config_file, server_name, "true").file
    /\ UNCHANGED <<registry_file, mcp, callers, server, TOOL_REGISTRY, tool_calls, maps,
                   sent, outcome, response, listed>>

remove_mcp_server(server_name) ==
    /\ editor' = [fn |-> "remove_mcp_server", arg |-> server_name,
                  returned |-> Removed(config_file, server_name).returned]
    /\ config_file' = Removed(config_file, server_name).file
    /\ UNCHANGED <<registry_file, mcp, callers, server, TOOL_REGISTRY, tool_calls, maps,
                   sent, outcome, response, listed>>

NextTools ==
    \/ \E d \in DefinitionPool : EditorAddTool(d.tool)
    \/ \E d \in DefinitionPool : add_tool_from_json(d)
    \/ \E n \in ServerNames : enable_mcp_server(n)
    \/ \E n \in ServerNames : disable_mcp_server(n)
    \/ \E n \in ServerNames : remove_mcp_server(n)

SpecTools == InitTools /\ [][NextTools]_vars

\* the names of a registry are pairwise distinct
DistinctNames(tools) ==
    \A i, j \in 1..Len(tools) : tools[i].name = tools[j].name => i = j

NameExists(tools, name) == \E n \in 1..Len(tools) : tools[n].name = name

\* the result refuses the call and leaves the file as it is
Refused(result, file) == result.returned = "False" /\ result.file = file

\* the result appends the descriptor behind the entries the file holds
Appended(result, file, tool) ==
    /\ result.returned = "True"
    /\ result.file.state = "json"
    /\ Len(result.file.tools) = Len(file.tools) + 1
    /\ result.file.tools[Len(result.file.tools)] = tool
    /\ SubSeq(result.file.tools, 1, Len(file.tools)) = file.tools
    /\ DistinctNames(result.file.tools)

\* C29: the registry editor keeps tool names unique: from a registry file
\* with pairwise distinct names, every sequence of add_tool and
\* add_tool_from_json calls leaves the names pairwise distinct and the
\* entries the file started with in place; a call whose name exists, or a
\* definition without name, description, parameters or docs, returns False
\* and leaves the file unchanged, and a successful call returns True and
\* appends the descriptor as the last entry, the existing entries unchanged.
C29_NamesStayUnique ==
    (editor # <<>> /\ registry_file.state = "json") =>
        /\ DistinctNames(registry_file.tools)
        /\ SubSeq(registry_file.tools, 1, Len(BaseRegistry)) = BaseRegistry
        /\ \A d \in DefinitionPool :
               /\ IF NameExists(registry_file.tools, d.tool.name)
                  THEN Refused(AddTool(registry_file, d.tool), registry_file)
                  ELSE Appended(AddTool(registry_file, d.tool), registry_file, d.tool)
               /\ IF \/ NameExists(registry_file.tools, d.tool.name)
                     \/ d.fields # {"name", "description", "parameters", "docs"}
                  THEN Refused(AddToolFromJson(registry_file, d), registry_file)
                  ELSE Appended(AddToolFromJson(registry_file, d), registry_file, d.tool)
        /\ editor.fn \in {"add_tool", "add_tool_from_json"} =>
               /\ editor.returned \in {"True", "False"}
               /\ editor.returned = "True" =>
                      registry_file.tools[Len(registry_file.tools)].name = editor.arg

\* two tools were added, and a call with a name that exists was refused
C29_Witness ==
    /\ editor # <<>>
    /\ registry_file.state = "json"
    /\ Len(registry_file.tools) = Len(BaseRegistry) + 2
    /\ editor.fn = "add_tool_from_json"
    /\ editor.returned = "False"
    /\ NameExists(registry_file.tools, editor.arg)

\* the file holds the named server
Holds(file, name) ==
    file.state = "json" /\ file.has_mcpServers /\ Has(file.mcpServers, name)

\* only the "disabled" field of the named server differs, and it has the value
OnlyDisabledSet(after, before, name, value) ==
    /\ after.state = before.state
    /\ after.has_mcpServers = before.has_mcpServers
    /\ after.rest = before.rest
    /\ [i \in 1..Len(after.mcpServers) |-> after.mcpServers[i].k]
           = [i \in 1..Len(before.mcpServers) |-> before.mcpServers[i].k]
    /\ \A n \in ServerNames :
           (Has(before.mcpServers, n) /\ n # name) =>
               Get(after.mcpServers, n) = Get(before.mcpServers, n)
    /\ Has(Get(after.mcpServers, name), "disabled")
    /\ Get(Get(after.mcpServers, name), "disabled") = value
    /\ Without(Get(after.mcpServers, name), {"disabled"})
           = Without(Get(before.mcpServers, name), {"disabled"})

\* only the entry of the named server is gone
OnlyEntryRemoved(after, before, name) ==
    /\ after.state = before.state
    /\ after.has_mcpServers = before.has_mcpServers
    /\ after.rest = before.rest
    /\ ~Has(after.mcpServers, name)
    /\ after.mcpServers = SelectSeq(before.mcpServers, LAMBDA e : e.k # name)

====
